---- MODULE Spec2Model ----
(***************************************************************************)
(* Floor-plan pipeline of Backend-Frank: DXF room detection                *)
(* (apps/uploads/dxf_processor.py, dxf_processor_enhanced.py), the upload  *)
(* task (apps/uploads/tasks.py) and the estimation services                *)
(* (apps/estimates/services.py, services_enhanced.py).                     *)
(*                                                                         *)
(* Number representation.  Python floats are modelled in fixed point:      *)
(*   - drawing coordinates are integers in tenths of a drawing unit, so a  *)
(*     raw polygon area is an integer number of hundredths of a unit^2;    *)
(*   - room areas, quantities and money are integers in hundredths;        *)
(*   - wall areas are integers in thousandths (the multipliers 2.5 and     *)
(*     3.5 applied to hundredths);                                         *)
(*   - an extraction threshold is an integer in 1/10000 of a unit^2;       *)
(*   - round(x, 2) is round-half-to-even on the exact value.               *)
(* Text is a sequence of one-character strings.                            *)
(***************************************************************************)
EXTENDS Integers, Sequences, FiniteSets, TLC

\* ------------------------------------------------------------------ bounds

\* Most text entities of a drawing.
MaxTexts == 2

\* Most polyline entities of a drawing.
MaxPolylines == 2

\* ----------------------------------------------------------------- helpers

Abs(x) == IF x < 0 THEN -x ELSE x

Max(a, b) == IF a >= b THEN a ELSE b

\* Python round(): the integer nearest to n/d (n >= 0, d > 0), ties to even.
RoundHalfEven(n, d) ==
    LET q == n \div d
        r == n % d
    IN  IF 2 * r < d THEN q
        ELSE IF 2 * r > d THEN q + 1
        ELSE IF q % 2 = 0 THEN q ELSE q + 1

\* str.upper() on one character.
UpperChar(c) ==
    CASE c = "a" -> "A" [] c = "b" -> "B" [] c = "c" -> "C" [] c = "d" -> "D"
      [] c = "e" -> "E" [] c = "f" -> "F" [] c = "g" -> "G" [] c = "h" -> "H"
      [] c = "i" -> "I" [] c = "j" -> "J" [] c = "k" -> "K" [] c = "l" -> "L"
      [] c = "m" -> "M" [] c = "n" -> "N" [] c = "o" -> "O" [] c = "p" -> "P"
      [] c = "q" -> "Q" [] c = "r" -> "R" [] c = "s" -> "S" [] c = "t" -> "T"
      [] c = "u" -> "U" [] c = "v" -> "V" [] c = "w" -> "W" [] c = "x" -> "X"
      [] c = "y" -> "Y" [] c = "z" -> "Z"
      [] OTHER -> c

upper(s) == [i \in 1..Len(s) |-> UpperChar(s[i])]

RECURSIVE lstrip(_)
lstrip(s) == IF s # <<>> /\ Head(s) = " " THEN lstrip(Tail(s)) ELSE s

RECURSIVE rstrip(_)
rstrip(s) ==
    IF s # <<>> /\ s[Len(s)] = " " THEN rstrip(SubSeq(s, 1, Len(s) - 1)) ELSE s

strip(s) == rstrip(lstrip(s))

\* Whether kw occurs in text as a contiguous substring (Python's `kw in text`).
Contains(kw, text) ==
    \E i \in 0..(Len(text) - Len(kw)) : SubSeq(text, i + 1, i + Len(kw)) = kw

\* Decimal digits of a natural number, as text (the f-string's str(n)).
RECURSIVE Digits(_)
Digits(n) ==
    LET d == <<"0", "1", "2", "3", "4", "5", "6", "7", "8", "9">>
    IN  IF n < 10 THEN <<d[n + 1]>> ELSE Digits(n \div 10) \o <<d[(n % 10) + 1]>>

\* f"ROOM_{n}"
RoomName(n) == <<"R", "O", "O", "M", "_">> \o Digits(n)

\* ---------------------------------------------------------- drawing entities

\* A closed rectangle entity given by two opposite corners (tenths of a unit).
Rect(type, x1, y1, x2, y2) ==
    [type |-> type, closed |-> TRUE,
     pts |-> <<<<x1, y1>>, <<x2, y1>>, <<x2, y2>>, <<x1, y2>>>>]

Text(text, x, y) == [type |-> "TEXT", text |-> text, insert |-> <<x, y>>]

\* The text entities a drawing of the model is made of.
TextEntities ==
    { Text(<<"b", "e", "d">>, 12, 12),        \* inside every rectangle
      Text(<<" ", "W", "C", " ">>, 30, 20),   \* inside the large ones only
      Text(<<" ", " ">>, 12, 12) }            \* blank: dropped

\* The closed polylines a drawing of the model is made of.
PolylineEntities ==
    { Rect("LWPOLYLINE", 0, 0, 40, 30),       \* 12.00 unit^2
      Rect("LWPOLYLINE", 10, 10, 20, 16),     \* 0.60 unit^2, nested
      Rect("POLYLINE", 11, 11, 16, 21),       \* 0.50 unit^2, nested
      Rect("LWPOLYLINE", 11, 11, 13, 14),     \* 0.06 unit^2, nested
      Rect("POLYLINE", 0, 0, 20000, 25000) }  \* 5,000,000 unit^2

RECURSIVE SeqsUpTo(_, _)
SeqsUpTo(S, n) ==
    IF n = 0 THEN {<<>>}
    ELSE LET shorter == SeqsUpTo(S, n - 1)
         IN  shorter \cup {Append(s, e) : s \in shorter, e \in S}

\* The drawings: the texts, then the polylines.  Labels and boundaries are
\* extracted by separate scans that keep file order, so how the two kinds
\* interleave in the file changes neither list.
Drawings ==
    {t \o p : t \in SeqsUpTo(TextEntities, MaxTexts),
              p \in SeqsUpTo(PolylineEntities, MaxPolylines)}

\* The unit hints of an upload (PlanUpload.scale), one of them unsupported.
Hints == {"mm", "cm", "m", "auto", "ft"}

\* ------------------------------------------------------------------ geometry

\* Twice the signed shoelace sum of a ring of points.
RECURSIVE Shoelace2(_, _)
Shoelace2(pts, i) ==
    IF i > Len(pts) THEN 0
    ELSE LET p == pts[i]
             q == pts[(i % Len(pts)) + 1]
         IN  (p[1] * q[2] - q[1] * p[2]) + Shoelace2(pts, i + 1)

\* shapely Polygon(pts) of a rectangle ring: its ring, its area in hundredths
\* of a unit^2 and its bounding corners.
Polygon(pts) ==
    LET xs == {pts[i][1] : i \in 1..Len(pts)}
        ys == {pts[i][2] : i \in 1..Len(pts)}
    IN  [pts |-> pts,
         area |-> Abs(Shoelace2(pts, 1)) \div 2,
         x1 |-> CHOOSE x \in xs : \A z \in xs : x <= z,
         x2 |-> CHOOSE x \in xs : \A z \in xs : x >= z,
         y1 |-> CHOOSE y \in ys : \A z \in ys : y <= z,
         y2 |-> CHOOSE y \in ys : \A z \in ys : y >= z]

\* poly.contains(point): the point lies in the interior (a point on the ring
\* is not contained).
contains(poly, pt) ==
    /\ poly.x1 < pt[1] /\ pt[1] < poly.x2
    /\ poly.y1 < pt[2] /\ pt[2] < poly.y2

\* poly.centroid, as <<2x, 2y>> to stay in integers.
centroid(poly) == <<poly.x1 + poly.x2, poly.y1 + poly.y2>>

\* poly.area > min_area_threshold, the threshold in 1/10000 of a unit^2.
AreaAbove(poly, thr) == poly.area > thr \div 100

\* round(poly.area * area_scale, 2) in hundredths of a square metre; area_scale
\* is 1/den.
area_sqm(poly, den) == RoundHalfEven(poly.area, den)

\* ------------------------------------------------------------- extraction

RECURSIVE extract_room_labels(_)
extract_room_labels(doc) ==
    IF doc = <<>> THEN <<>>
    ELSE LET e == Head(doc)
             rest == extract_room_labels(Tail(doc))
             text == upper(strip(e.text))
         IN  IF e.type \in {"TEXT", "MTEXT"} /\ text # <<>>
             THEN <<[name |-> text, point |-> e.insert]>> \o rest
             ELSE rest

\* dxf_processor.py: closed LWPOLYLINE and POLYLINE entities above the
\* threshold.
RECURSIVE extract_room_boundaries(_, _)
extract_room_boundaries(doc, thr) ==
    IF doc = <<>> THEN <<>>
    ELSE LET e == Head(doc)
             rest == extract_room_boundaries(Tail(doc), thr)
         IN  IF /\ e.type \in {"LWPOLYLINE", "POLYLINE"}
                /\ e.closed
                /\ Len(e.pts) >= 3
                /\ AreaAbove(Polygon(e.pts), thr)
             THEN <<Polygon(e.pts)>> \o rest
             ELSE rest

\* dxf_processor_enhanced.py: the same for the entity kinds of the model.
RECURSIVE extract_room_boundaries_enhanced(_, _)
extract_room_boundaries_enhanced(doc, thr) ==
    IF doc = <<>> THEN <<>>
    ELSE LET e == Head(doc)
             rest == extract_room_boundaries_enhanced(Tail(doc), thr)
         IN  IF /\ e.type \in {"LWPOLYLINE", "POLYLINE"}
                /\ e.closed
                /\ Len(e.pts) >= 3
                /\ AreaAbove(Polygon(e.pts), thr)
             THEN <<Polygon(e.pts)>> \o rest
             ELSE rest

\* ---------------------------------------------------------------- matching
\* A room is the dict the code returns (name, area, center); the fields b and
\* l record which boundary (1-based position) and which label (1-based
\* position, 0 for none) it was built from.  matched[i] is the label the
\* inner loop found for boundary i (0 for none), whether or not a room was
\* emitted for it.

\* The inner loop of match_rooms: the first label, in list order, that is not
\* skipped and whose point the polygon contains; 0 when there is none.
FirstLabel(poly, labels, skipped) ==
    LET hits == {j \in 1..Len(labels) :
                    j \notin skipped /\ contains(poly, labels[j].point)}
    IN  IF hits = {} THEN 0 ELSE CHOOSE j \in hits : \A k \in hits : j <= k

\* A label loop that forgets which labels were consumed.
SkipNoLabel(used_labels) == {}

\* dxf_processor_enhanced.py: the label loop skips the labels in used_labels.
EnhancedSkipped(used_labels) == used_labels

\* dxf_processor_enhanced.py: the significance floor, area_sqm > 0.5.
EnhancedSignificant(a) == a > 50

\* dxf_processor_enhanced.py: the synthesized name of boundary i (1-based),
\* f"ROOM_{i + 1}" of the 0-based index.
EnhancedRoomName(i, rooms) == RoomName(i)

\* One iteration of the enhanced boundary loop on the accumulator
\* [rooms, used_labels, matched].
EnhancedIteration(i, poly, labels, den, acc) ==
    LET j == FirstLabel(poly, labels, EnhancedSkipped(acc.used_labels))
        used == IF j = 0 THEN acc.used_labels ELSE acc.used_labels \cup {j}
        a == area_sqm(poly, den)
        room == [name |-> IF j # 0 THEN labels[j].name
                          ELSE EnhancedRoomName(i, acc.rooms),
                 area |-> a, center |-> centroid(poly), b |-> i, l |-> j]
    IN  [rooms |-> IF EnhancedSignificant(a) THEN Append(acc.rooms, room)
                   ELSE acc.rooms,
         used_labels |-> used,
         matched |-> Append(acc.matched, j)]

RECURSIVE EnhancedLoop(_, _, _, _, _)
EnhancedLoop(i, boundaries, labels, den, acc) ==
    IF i > Len(boundaries) THEN acc
    ELSE EnhancedLoop(i + 1, boundaries, labels, den,
                      EnhancedIteration(i, boundaries[i], labels, den, acc))

\* dxf_processor_enhanced.match_rooms(doc, area_scale, min_area_threshold):
\* the rooms, with the labels and boundaries it extracted and the final
\* used_labels.
match_rooms_enhanced(doc, den, thr) ==
    LET labels == extract_room_labels(doc)
        boundaries == extract_room_boundaries_enhanced(doc, thr)
        out == EnhancedLoop(1, boundaries, labels, den,
                            [rooms |-> <<>>, used_labels |-> {},
                             matched |-> <<>>])
    IN  [impl |-> "enhanced", den |-> den, thr |-> thr,
         labels |-> labels, boundaries |-> boundaries,
         rooms |-> out.rooms, used_labels |-> out.used_labels,
         matched |-> out.matched]

\* dxf_processor.py: one iteration of the boundary loop.  The label loop
\* skips nothing; an unmatched boundary is kept above 5 sqm and named after
\* the number of rooms emitted so far.
BasicIteration(i, poly, labels, den, acc) ==
    LET j == FirstLabel(poly, labels, {})
        a == area_sqm(poly, den)
        rooms == acc.rooms
    IN  [rooms |->
            IF j # 0
            THEN Append(rooms, [name |-> labels[j].name, area |-> a,
                                center |-> centroid(poly), b |-> i, l |-> j])
            ELSE IF a > 500
            THEN Append(rooms, [name |-> RoomName(Len(rooms) + 1), area |-> a,
                                center |-> centroid(poly), b |-> i, l |-> 0])
            ELSE rooms,
         matched |-> Append(acc.matched, j)]

RECURSIVE BasicLoop(_, _, _, _, _)
BasicLoop(i, boundaries, labels, den, acc) ==
    IF i > Len(boundaries) THEN acc
    ELSE BasicLoop(i + 1, boundaries, labels, den,
                   BasicIteration(i, boundaries[i], labels, den, acc))

\* dxf_processor.match_rooms(doc, area_scale, min_area_threshold).
match_rooms(doc, den, thr) ==
    LET labels == extract_room_labels(doc)
        boundaries == extract_room_boundaries(doc, thr)
        out == BasicLoop(1, boundaries, labels, den,
                         [rooms |-> <<>>, matched |-> <<>>])
    IN  [impl |-> "basic", den |-> den, thr |-> thr,
         labels |-> labels, boundaries |-> boundaries,
         rooms |-> out.rooms, used_labels |-> {},
         matched |-> out.matched]

\* ------------------------------------------------------------ unit scales
\* An area scale 1/den: mm^2 -> m^2 is 0.000001, cm^2 -> m^2 is 0.0001.

MmDen == 1000000
CmDen == 10000
MDen == 1

\* dxf_processor_enhanced.auto_detect_units(boundaries): the unit and the
\* denominator of the area scale.  avg_area = sum / len is compared with the
\* bounds multiplied out (areas are in hundredths).
RECURSIVE SumArea(_)
SumArea(boundaries) ==
    IF boundaries = <<>> THEN 0
    ELSE Head(boundaries).area + SumArea(Tail(boundaries))

auto_detect_units(boundaries) ==
    LET n == Len(boundaries)
        s == SumArea(boundaries)
    IN  IF n = 0 THEN [unit |-> "mm", den |-> MmDen]
        ELSE IF s > 100000000 * n THEN [unit |-> "mm", den |-> MmDen]
        ELSE IF s > 1000 * n /\ s < 10000000 * n THEN [unit |-> "m", den |-> MDen]
        ELSE IF s < 1000 * n THEN [unit |-> "cm", den |-> CmDen]
        ELSE [unit |-> "mm", den |-> MmDen]

\* ------------------------------------------------------------ classifier

\* A classifier that hands the name back as the type.
NameAsType(raw_name, area) == raw_name

\* A classifier that looks at the area only.
ClassifyByAreaOnly(raw_name, area) ==
    IF area >= 2000 THEN <<"L", "i", "v", "i", "n", "g", " ", "R", "o", "o", "m">>
    ELSE IF area >= 1000 THEN <<"B", "e", "d", "r", "o", "o", "m">>
    ELSE IF area >= 500 THEN <<"K", "i", "t", "c", "h", "e", "n">>
    ELSE <<"O", "t", "h", "e", "r">>

\* apps/ai/services.py ai_classify_room(raw_name, area), area in hundredths
\* of a square metre.
ai_classify_room(raw_name, area) ==
    LET text == strip(upper(raw_name))
    IN  IF raw_name = <<>> THEN <<"O", "t", "h", "e", "r">>
        ELSE IF Contains(<<"B", "E", "D">>, text) THEN <<"B", "e", "d", "r", "o", "o", "m">>
        ELSE IF \/ Contains(<<"T", "O", "I", "L", "E", "T">>, text)
                \/ Contains(<<"B", "A", "T", "H">>, text)
                \/ Contains(<<"W", "C">>, text)
             THEN <<"B", "a", "t", "h", "r", "o", "o", "m">>
        ELSE IF Contains(<<"K", "I", "T", "C", "H", "E", "N">>, text) THEN <<"K", "i", "t", "c", "h", "e", "n">>
        ELSE IF \/ Contains(<<"L", "I", "V", "I", "N", "G">>, text)
                \/ Contains(<<"L", "O", "U", "N", "G", "E">>, text)
             THEN <<"L", "i", "v", "i", "n", "g", " ", "R", "o", "o", "m">>
        ELSE IF Contains(<<"D", "I", "N", "I", "N", "G">>, text) THEN <<"D", "i", "n", "i", "n", "g", " ", "R", "o", "o", "m">>
        ELSE IF Contains(<<"S", "E", "R", "V", "A", "N", "T">>, text)
             THEN <<"S", "e", "r", "v", "a", "n", "t", " ", "R", "o", "o", "m">>
        ELSE IF Contains(<<"S", "T", "O", "R", "E">>, text) THEN <<"S", "t", "o", "r", "e", " ", "R", "o", "o", "m">>
        ELSE IF Contains(<<"B", "A", "L", "C", "O", "N", "Y">>, text) THEN <<"B", "a", "l", "c", "o", "n", "y">>
        ELSE IF area >= 2000 THEN <<"L", "i", "v", "i", "n", "g", " ", "R", "o", "o", "m">>
        ELSE IF area >= 1000 THEN <<"B", "e", "d", "r", "o", "o", "m">>
        ELSE IF area >= 500 THEN <<"K", "i", "t", "c", "h", "e", "n">>
        ELSE <<"O", "t", "h", "e", "r">>

\* apps/ai/prompts.py ai_classify_room(raw_name, area) for a string raw_name:
\* the same keyword rules, no test for an empty name, and the area buckets
\* above 12, above 9 and above 4 sqm.
ai_classify_room_prompts(raw_name, area) ==
    LET text == strip(upper(raw_name))
    IN
        IF Contains(<<"B", "E", "D">>, text)
             THEN <<"B", "e", "d", "r", "o", "o", "m">>
        ELSE IF Contains(<<"T", "O", "I", "L", "E", "T">>, text) \/ Contains(<<"B", "A", "T", "H">>, text) \/ Contains(<<"W", "C">>, text)
             THEN <<"B", "a", "t", "h", "r", "o", "o", "m">>
        ELSE IF Contains(<<"K", "I", "T", "C", "H", "E", "N">>, text)
             THEN <<"K", "i", "t", "c", "h", "e", "n">>
        ELSE IF Contains(<<"L", "I", "V", "I", "N", "G">>, text) \/ Contains(<<"L", "O", "U", "N", "G", "E">>, text)
             THEN <<"L", "i", "v", "i", "n", "g", " ", "R", "o", "o", "m">>
        ELSE IF Contains(<<"D", "I", "N", "I", "N", "G">>, text)
             THEN <<"D", "i", "n", "i", "n", "g", " ", "R", "o", "o", "m">>
        ELSE IF Contains(<<"S", "E", "R", "V", "A", "N", "T">>, text)
             THEN <<"S", "e", "r", "v", "a", "n", "t", " ", "R", "o", "o", "m">>
        ELSE IF Contains(<<"S", "T", "O", "R", "E">>, text)
             THEN <<"S", "t", "o", "r", "e", " ", "R", "o", "o", "m">>
        ELSE IF Contains(<<"B", "A", "L", "C", "O", "N", "Y">>, text)
             THEN <<"B", "a", "l", "c", "o", "n", "y">>
        ELSE IF area > 1200 THEN <<"L", "i", "v", "i", "n", "g", " ", "R", "o", "o", "m">>
        ELSE IF area > 900 THEN <<"B", "e", "d", "r", "o", "o", "m">>
        ELSE IF area > 400 THEN <<"K", "i", "t", "c", "h", "e", "n">>
        ELSE <<"O", "t", "h", "e", "r">>

\* apps/rooms/services.py classify_room(name, area), which tasks.py calls: the
\* classifier of the room-type cascade.
classify_room(name, area) == ai_classify_room(name, area)

\* -------------------------------------------------------------- estimation

\* services_enhanced.calculate_wall_area(floor_area, room_name): the wall
\* area in thousandths, floor_area in hundredths.
calculate_wall_area(floor_area, room_name) ==
    LET u == upper(room_name)
    IN  IF Contains(<<"T", "O", "I", "L", "E", "T">>, u) \/ Contains(<<"B", "A", "T", "H", "R", "O", "O", "M">>, u)
        THEN floor_area * 25
        ELSE IF Contains(<<"B", "E", "D", "R", "O", "O", "M">>, u) THEN floor_area * 30
        ELSE IF Contains(<<"L", "I", "V", "I", "N", "G">>, u) \/ Contains(<<"H", "A", "L", "L">>, u)
        THEN floor_area * 35
        ELSE floor_area * 30

\* services_enhanced.DEFAULT_RATES.get(category, {}).get(item_name,
\* {'rate': 0, 'unit': 'sqm'})
DEFAULT_RATES(category, item_name) ==
    LET k == <<category, item_name>>
    IN  CASE k = <<"Civil", "Brickwork">> -> [rate |-> 550, unit |-> "sqm"]
          [] k = <<"Civil", "Plastering">> -> [rate |-> 180, unit |-> "sqm"]
          [] k = <<"Civil", "Concrete Work">> -> [rate |-> 8500, unit |-> "cum"]
          [] k = <<"Interior", "Floor Tiling">> -> [rate |-> 1200, unit |-> "sqm"]
          [] k = <<"Interior", "Wall Tiling">> -> [rate |-> 900, unit |-> "sqm"]
          [] k = <<"Interior", "False Ceiling">> -> [rate |-> 250, unit |-> "sqft"]
          [] k = <<"Interior", "Woodwork">> -> [rate |-> 1500, unit |-> "sqft"]
          [] k = <<"Painting", "Wall Painting">> -> [rate |-> 150, unit |-> "sqm"]
          [] k = <<"Painting", "Ceiling Painting">> -> [rate |-> 120, unit |-> "sqm"]
          [] k = <<"Electrical", "Wiring">> -> [rate |-> 450, unit |-> "point"]
          [] k = <<"Electrical", "Light Points">> -> [rate |-> 350, unit |-> "nos"]
          [] k = <<"Electrical", "Switch Board">> -> [rate |-> 800, unit |-> "nos"]
          [] k = <<"Plumbing", "Water Supply">> -> [rate |-> 350, unit |-> "point"]
          [] k = <<"Plumbing", "Drainage">> -> [rate |-> 400, unit |-> "point"]
          [] OTHER -> [rate |-> 0, unit |-> "sqm"]

\* The keys of services_enhanced.DEFAULT_RATES.
DefaultKeys ==
    {<<"Civil", "Brickwork">>, <<"Civil", "Plastering">>,
     <<"Civil", "Concrete Work">>, <<"Interior", "Floor Tiling">>,
     <<"Interior", "Wall Tiling">>, <<"Interior", "False Ceiling">>,
     <<"Interior", "Woodwork">>, <<"Painting", "Wall Painting">>,
     <<"Painting", "Ceiling Painting">>, <<"Electrical", "Wiring">>,
     <<"Electrical", "Light Points">>, <<"Electrical", "Switch Board">>,
     <<"Plumbing", "Water Supply">>, <<"Plumbing", "Drainage">>}

\* RateCard.objects.filter(category=category, item_name=item_name,
\* is_active=True, effective_from__lte=date.today()) over the rows `cards`.
ApplicableRateCards(cards, day, category, item_name) ==
    {c \in cards : /\ c.category = category
                   /\ c.item_name = item_name
                   /\ c.is_active
                   /\ c.effective_from <= day}

\* A variant that orders nothing: any applicable row may come first.
AnyRateCard(hits) == hits

\* .order_by('-effective_from').first(): the rows that may come first.  Rows
\* of different locations may share an effective_from; the database returns
\* either.
NewestRateCards(hits) ==
    {c \in hits : \A d \in hits : d.effective_from <= c.effective_from}

\* A variant without the default table: rate 0 whenever no row applies.
NoDefaultTable(cards, day, category, item_name) ==
    LET hits == ApplicableRateCards(cards, day, category, item_name)
    IN  IF hits # {}
        THEN {[rate |-> c.rate, unit |-> c.unit] : c \in NewestRateCards(hits)}
        ELSE {[rate |-> 0, unit |-> "sqm"]}

\* The values services_enhanced.get_rate_for_item(category, item_name) may
\* return over the RateCard rows `cards` on the day `day` when the query
\* succeeds: the rate and unit of a newest applicable row, else the default.
RatesForItem(cards, day, category, item_name) ==
    LET hits == ApplicableRateCards(cards, day, category, item_name)
    IN  IF hits # {}
        THEN {[rate |-> c.rate, unit |-> c.unit] : c \in NewestRateCards(hits)}
        ELSE {DEFAULT_RATES(category, item_name)}

\* services_enhanced.get_rate_for_item(category, item_name).
get_rate_for_item(cards, day, category, item_name) ==
    CHOOSE r \in RatesForItem(cards, day, category, item_name) : TRUE

\* The six work items generate_detailed_estimate creates per room, in code
\* order: category, the rate looked up, the item-name suffix.
WorkItems ==
    << [category |-> "Civil", rate_item |-> "Brickwork",
        suffix |-> <<" ", "-", " ", "B", "r", "i", "c", "k", "w", "o", "r", "k">>],
       [category |-> "Civil", rate_item |-> "Plastering",
        suffix |-> <<" ", "-", " ", "W", "a", "l", "l", " ", "P", "l", "a", "s", "t", "e", "r", "i", "n", "g">>],
       [category |-> "Interior", rate_item |-> "Floor Tiling",
        suffix |-> <<" ", "-", " ", "F", "l", "o", "o", "r", " ", "T", "i", "l", "i", "n", "g">>],
       [category |-> "Painting", rate_item |-> "Wall Painting",
        suffix |-> <<" ", "-", " ", "W", "a", "l", "l", " ", "P", "a", "i", "n", "t", "i", "n", "g">>],
       [category |-> "Electrical", rate_item |-> "Light Points",
        suffix |-> <<" ", "-", " ", "L", "i", "g", "h", "t", " ", "P", "o", "i", "n", "t", "s">>],
       [category |-> "Electrical", rate_item |-> "Switch Board",
        suffix |-> <<" ", "-", " ", "S", "w", "i", "t", "c", "h", " ", "B", "o", "a", "r", "d", "s">>] >>

\* A variant that measures every work item by the floor area.
FloorAreaQuantity(k, floor_area, wall_area) == floor_area

\* The quantity of work item k of a room, in hundredths: round(wall_area, 2),
\* round(floor_area, 2), max(1, int(floor_area / 10)) light points, 1 switch
\* board.
ItemQuantity(k, floor_area, wall_area) ==
    CASE k \in {1, 2, 4} -> RoundHalfEven(wall_area, 10)
      [] k = 3 -> floor_area
      [] k = 5 -> 100 * Max(1, floor_area \div 1000)
      [] k = 6 -> 100

\* quantity * rate, quantity and amount in hundredths.
LineItemAmount(quantity, rate) == quantity * rate

\* The amount attribute of an EstimateLineItem built without one (None).
NoAmount == -1

\* A save that stores the row as the caller built it.
SaveAsGiven(self) == self

\* EstimateLineItem.save(): self.amount = self.quantity * self.rate, then the
\* row is written.
EstimateLineItem_save(self) ==
    [self EXCEPT !.amount = LineItemAmount(self.quantity, self.rate)]

\* The EstimateLineItem row EstimateLineItem.objects.create(...) stores for
\* work item k of `room`: the caller passes no amount (the attribute is None
\* until save() computes it).
NewLineItem(k, room, cards, day) ==
    LET w == WorkItems[k]
        r == get_rate_for_item(cards, day, w.category, w.rate_item)
        q == ItemQuantity(k, room.area, calculate_wall_area(room.area, room.name))
    IN  EstimateLineItem_save(
            [room |-> room.id, category |-> w.category,
             item_name |-> room.name \o w.suffix,
             quantity |-> q, unit |-> r.unit, rate |-> r.rate,
             amount |-> NoAmount, old |-> FALSE])

\* sum(item.quantity for item in items if kw in item.item_name)
RECURSIVE SumQuantity(_, _)
SumQuantity(items, kw) ==
    IF items = <<>> THEN 0
    ELSE (IF Contains(kw, Head(items).item_name) THEN Head(items).quantity
          ELSE 0) + SumQuantity(Tail(items), kw)

\* The RoomEstimate row generate_detailed_estimate creates for `room`:
\* tiles_sqm and cost in hundredths, paint_sqm (the raw wall area) in
\* thousandths.
DetailedRoomEstimate(room, room_cost) ==
    LET wall_area == calculate_wall_area(room.area, room.name)
    IN  [room |-> room.id, tiles_sqm |-> room.area, paint_sqm |-> wall_area,
         cement_bags |-> wall_area \div 5000,
         sand_tons |-> RoundHalfEven(wall_area * 7, 10000),
         cost |-> room_cost, old |-> FALSE]

\* The fields generate_detailed_estimate stores on the Estimate from its
\* line_items_data and total_cost.
DetailedTotals(line_items_data, total_cost) ==
    LET total_tiles ==
            SumQuantity(line_items_data, <<"T", "i", "l", "i", "n", "g">>)
        total_paint ==
            SumQuantity(line_items_data, <<"P", "a", "i", "n", "t", "i", "n", "g">>)
    IN  [total_tiles_sqm |-> total_tiles, total_paint_sqm |-> total_paint,
         cement_bags |-> total_paint \div 500,
         sand_tons |-> RoundHalfEven(total_paint * 7, 1000),
         total_cost |-> total_cost, old |-> FALSE]

\* The foreign key EstimateLineItem.room after on_delete=SET_NULL.
NULL == 0

\* sum of item.amount over the rows `items`.
RECURSIVE SumAmounts(_)
SumAmounts(items) ==
    IF items = {} THEN 0
    ELSE LET item == CHOOSE i \in items : TRUE
         IN  item.amount + SumAmounts(items \ {item})

\* services_enhanced.get_estimate_summary_by_category(project_id): the dict
\* category -> sum of the amounts of its line items, {} without an Estimate.
get_estimate_summary_by_category(estimate, line_items) ==
    IF ~estimate.exists THEN <<>>
    ELSE [c \in {item.category : item \in line_items} |->
             SumAmounts({item \in line_items : item.category = c})]

\* sum(category_summary.values())
RECURSIVE SumValues(_)
SumValues(summary) ==
    IF DOMAIN summary = {} THEN 0
    ELSE LET c == CHOOSE k \in DOMAIN summary : TRUE
         IN  summary[c] + SumValues([k \in DOMAIN summary \ {c} |-> summary[k]])

\* views.estimate_by_category: the response.  Money in hundredths;
\* round(total * 0.18, 2) is RoundHalfEven(total * 18, 100).
estimate_by_category(estimate, line_items) ==
    LET category_summary == get_estimate_summary_by_category(estimate, line_items)
        total == SumValues(category_summary)
        gst == RoundHalfEven(total * 18, 100)
    IN  IF DOMAIN category_summary = {}
        THEN [status |-> 404, error |-> "No estimate found"]
        ELSE [status |-> 200, categories |-> category_summary,
              subtotal |-> total, gst |-> gst, grand_total |-> total + gst]

\* services_enhanced.get_detailed_estimate_for_api(project_id): the dict
\* returned for the project's estimate (the project's own fields left out).
\* round(total_cost * 1.18, 2) is RoundHalfEven(total_cost * 118, 100).
get_detailed_estimate_for_api(estimate, line_items, rooms) ==
    [summary |->
        [total_cost |-> estimate.total_cost,
         category_wise |-> get_estimate_summary_by_category(estimate, line_items),
         gst |-> RoundHalfEven(estimate.total_cost * 18, 100),
         grand_total |-> RoundHalfEven(estimate.total_cost * 118, 100)],
     line_items |->
        {[id |-> item.id, category |-> item.category,
          item_name |-> item.item_name,
          room |-> IF item.room = NULL THEN [none |-> TRUE, text |-> <<>>]
                   ELSE [none |-> FALSE,
                         text |-> (CHOOSE r \in rooms : r.id = item.room).name],
          quantity |-> item.quantity, unit |-> item.unit, rate |-> item.rate,
          amount |-> item.amount] : item \in line_items},
     materials |->
        [tiles_sqm |-> estimate.total_tiles_sqm,
         paint_sqm |-> estimate.total_paint_sqm,
         cement_bags |-> estimate.cement_bags,
         sand_tons |-> estimate.sand_tons]]

\* views.estimate_detailed: the response.
estimate_detailed(estimate, line_items, rooms) ==
    IF ~estimate.exists
    THEN [status |-> 404, error |-> "No estimate found for this project"]
    ELSE [status |-> 200]
         @@ get_detailed_estimate_for_api(estimate, line_items, rooms)

\* round(cement_bags * 0.035, 2) in hundredths, as Python computes it on
\* doubles: 0.035 is stored a little above 35/1000 and a product that would
\* end in 5 thousandths comes out above the tie, so it rounds upwards (7 bags
\* give 0.25) for every cement_bags below 237, the range of the rooms here.
RoundSand(cement_bags) == (cement_bags * 35 + 5) \div 10

\* A variant that rounds the cement bags up to a whole bag.
SummaryRoomWholeBags(room) ==
    LET wall_area == room.area * 30
        cement_bags == (wall_area + 4999) \div 5000
        sand_tons == (cement_bags * 35 + 5) \div 10
    IN  [tiles_sqm |-> room.area, paint_sqm |-> wall_area,
         cement_bags |-> cement_bags, sand_tons |-> sand_tons,
         cost |-> room.area * 1200 + (wall_area * 15) \div 10
                  + cement_bags * 42000 + sand_tons * 1400]

\* services.generate_estimate: the per-room figures.  wall_area in
\* thousandths, cost in hundredths.
SummaryRoom(room) ==
    LET wall_area == room.area * 30
        cement_bags == wall_area \div 5000
        sand_tons == RoundSand(cement_bags)
    IN  [tiles_sqm |-> room.area, paint_sqm |-> wall_area,
         cement_bags |-> cement_bags, sand_tons |-> sand_tons,
         cost |-> room.area * 1200 + (wall_area * 15) \div 10
                  + cement_bags * 42000 + sand_tons * 1400]

\* The RoomEstimate row generate_estimate creates for `room` (paint_sqm is
\* rounded to 2 decimals, kept in thousandths).
SummaryRoomEstimate(room) ==
    LET e == SummaryRoom(room)
    IN  [room |-> room.id, tiles_sqm |-> e.tiles_sqm,
         paint_sqm |-> RoundHalfEven(e.paint_sqm, 10) * 10,
         cement_bags |-> e.cement_bags, sand_tons |-> e.sand_tons,
         cost |-> e.cost, old |-> FALSE]

\* A local variable that no assignment has bound yet.
Unbound == -1

\* No match_rooms call has been made yet.
NoMatch == [impl |-> "none"]

\* dxf_processor_enhanced.detect_rooms_from_dxf: area_scale and min_threshold
\* after the unit branch.  The auto branch binds area_scale only.
EnhancedUnits(hint, preliminary) ==
    IF hint = "auto" \/ hint \notin {"mm", "m", "cm"}
    THEN [area_scale |-> auto_detect_units(preliminary).den,
          min_threshold |-> Unbound]
    ELSE IF hint = "mm" THEN [area_scale |-> MmDen, min_threshold |-> 10000000]
    ELSE IF hint = "m" THEN [area_scale |-> MDen, min_threshold |-> 100]
    ELSE [area_scale |-> CmDen, min_threshold |-> 100000]

\* A retry that does not lower the threshold.
SameThreshold(thr) == thr

\* dxf_processor_enhanced.detect_rooms_from_dxf: the retry's threshold,
\* min_threshold / 100.
EnhancedRetryThreshold(thr) == thr \div 100

\* dxf_processor.detect_rooms_from_dxf: area_scale and min_threshold.
BasicUnits(hint) ==
    IF hint = "mm" THEN [area_scale |-> MmDen, min_threshold |-> 1000000000]
    ELSE [area_scale |-> MDen, min_threshold |-> 1000]

\* dxf_processor.detect_rooms_from_dxf: the retry's threshold,
\* min_threshold / 10.
BasicRetryThreshold(thr) == thr \div 10

\* ------------------------------------------------------------------- state

VARIABLES
    \* detect_rooms_from_dxf: one call
    doc,            \* the entities of the drawing file, in file order
    file,           \* "ok", "corrupt" (DXFStructureError) or "missing"
    scale,          \* the unit hint passed in
    impl,           \* the module whose function runs: "basic" or "enhanced"
    dpc,            \* position of the call
    area_scale,     \* local: denominator of the area scale, or Unbound
    min_threshold,  \* local: in 1/10000 unit^2, or Unbound
    detected,       \* local `rooms`, returned at the end
    error,          \* the message of the exception raised, "" for none
    m,              \* the result of the latest match_rooms call
    calls,          \* the match_rooms calls so far: threshold, rooms returned
    \* the database rows of one project (every query filters on the project)
    Room,               \* set of rows
    RoomEstimate,       \* set of rows
    EstimateLineItem,   \* set of rows
    Estimate,           \* the project's one row, or NoEstimate
    PlanUpload,         \* the uploads, oldest first
    RateCard,           \* set of rows
    today,              \* date.today(), a day number
    \* the request being served
    pc,             \* position in the request's code
    op,             \* "upload", "detailed" or "summary"
    loc,            \* the local variables of the running functions
    before,         \* the project's rows when the request began
    last,           \* the request served before this one and how it ended
    other,          \* the suspended run of a second worker, NoRun without one
    runs,           \* number of requests so far
    \* one call of a function that writes nothing
    call,           \* the function called and its arguments
    ret             \* what the call returned or raised, NoRet before it ends

dxfVars == <<doc, file, scale, impl, dpc, area_scale, min_threshold,
             detected, error, m, calls>>

\* The rows a run of the pipeline replaces.
derivedVars == <<Room, RoomEstimate, EstimateLineItem, Estimate>>

dbVars == <<derivedVars, PlanUpload, RateCard, today>>

taskVars == <<pc, op, loc, before, last, other, runs>>

fnVars == <<call, ret>>

vars == <<dxfVars, dbVars, taskVars, fnVars>>

\* The call returned v.
Returned(v) == [kind |-> "return", value |-> v]

\* The call raised the exception e.
Raised(e) == [kind |-> "raise", error |-> e]

\* No function has been called on its own.
NoCall == [fn |-> "none"]

\* The call has not ended.
NoRet == [kind |-> "none"]

FnIdle ==
    /\ call = NoCall
    /\ ret = NoRet

\* Estimate.objects.filter(project=...).first() found nothing.
NoEstimate == [exists |-> FALSE]

\* No second worker serves the project.
NoRun == [pc |-> "none"]

\* The local variables before a request assigns them.
InitLoc ==
    [up |-> 0, rooms_data |-> <<>>, i |-> 0, saved |-> 0, qs |-> <<>>,
     k |-> 0, room_cost |-> 0, total_cost |-> 0, line_items_data |-> <<>>,
     total_tiles |-> 0, total_paint |-> 0, total_cement |-> 0,
     total_sand |-> 0]

\* No request has touched the database and none is being served.
StoreIdle ==
    /\ Room = {}
    /\ RoomEstimate = {}
    /\ EstimateLineItem = {}
    /\ Estimate = NoEstimate
    /\ PlanUpload = <<>>
    /\ pc = "idle"
    /\ op = "none"
    /\ loc = InitLoc
    /\ before = [Room |-> {}, RoomEstimate |-> {}, EstimateLineItem |-> {},
                 Estimate |-> NoEstimate]
    /\ last = [op |-> "none", pc |-> "idle"]
    /\ other = NoRun
    /\ runs = 0

\* ------------------------------------------------- detect_rooms_from_dxf

InitDxf ==
    /\ doc \in Drawings
    /\ file \in {"ok", "corrupt", "missing"}
    /\ file # "ok" => doc = <<>>
    /\ scale \in Hints
    /\ impl \in {"basic", "enhanced"}
    /\ dpc = "start"
    /\ area_scale = Unbound
    /\ min_threshold = Unbound
    /\ detected = <<>>
    /\ error = ""
    /\ m = NoMatch
    /\ calls = <<>>
    /\ StoreIdle
    /\ RateCard = {}
    /\ today = 2
    /\ FnIdle

\* The except clauses: every exception leaves as a plain Exception.
Raise(msg) ==
    /\ dpc' = "raised"
    /\ error' = msg

\* ezdxf.readfile(file_path)
ReadFile ==
    /\ dpc = "start"
    /\ \/ /\ file = "ok"
          /\ dpc' = "opened"
          /\ error' = error
       \/ /\ file = "corrupt"
          /\ Raise("Invalid DXF file structure")
       \/ /\ file = "missing"
          /\ Raise("DXF file not found")
    /\ UNCHANGED <<doc, file, scale, impl, area_scale, min_threshold,
                   detected, m, calls>>
    /\ UNCHANGED <<dbVars, taskVars, fnVars>>

\* enhanced: the preliminary extraction with threshold 0 and the unit branch.
EnhancedResolveUnits ==
    /\ dpc = "opened"
    /\ impl = "enhanced"
    /\ LET preliminary == extract_room_boundaries_enhanced(doc, 0)
       IN  IF preliminary = <<>>
           THEN /\ dpc' = "returned"
                /\ detected' = <<>>
                /\ UNCHANGED <<area_scale, min_threshold>>
           ELSE /\ dpc' = "pass1"
                /\ area_scale' = EnhancedUnits(scale, preliminary).area_scale
                /\ min_threshold' = EnhancedUnits(scale, preliminary).min_threshold
                /\ UNCHANGED detected
    /\ UNCHANGED <<doc, file, scale, impl, error, m, calls>>
    /\ UNCHANGED <<dbVars, taskVars, fnVars>>

\* basic: the unit branch.
BasicResolveUnits ==
    /\ dpc = "opened"
    /\ impl = "basic"
    /\ dpc' = "pass1"
    /\ area_scale' = BasicUnits(scale).area_scale
    /\ min_threshold' = BasicUnits(scale).min_threshold
    /\ UNCHANGED <<doc, file, scale, impl, detected, error, m, calls>>
    /\ UNCHANGED <<dbVars, taskVars, fnVars>>

\* The match_rooms of the module that runs.
Match(den, thr) ==
    IF impl = "enhanced" THEN match_rooms_enhanced(doc, den, thr)
    ELSE match_rooms(doc, den, thr)

\* rooms = match_rooms(doc, area_scale, min_threshold).  Reading the unbound
\* min_threshold raises UnboundLocalError, which `except Exception` wraps.
FirstPass ==
    /\ dpc = "pass1"
    /\ IF min_threshold = Unbound
       THEN /\ Raise("Error processing DXF file")
            /\ UNCHANGED <<detected, m, calls>>
       ELSE /\ m' = Match(area_scale, min_threshold)
            /\ calls' = Append(calls, [thr |-> min_threshold, n |-> Len(m'.rooms)])
            /\ detected' = m'.rooms
            /\ dpc' = IF m'.rooms = <<>> THEN "retry" ELSE "return"
            /\ error' = error
    /\ UNCHANGED <<doc, file, scale, impl, area_scale, min_threshold>>
    /\ UNCHANGED <<dbVars, taskVars, fnVars>>

RetryThreshold ==
    IF impl = "enhanced" THEN EnhancedRetryThreshold(min_threshold)
    ELSE BasicRetryThreshold(min_threshold)

\* if not rooms: rooms = match_rooms(doc, area_scale, <lower threshold>)
Retry ==
    /\ dpc = "retry"
    /\ m' = Match(area_scale, RetryThreshold)
    /\ calls' = Append(calls, [thr |-> RetryThreshold, n |-> Len(m'.rooms)])
    /\ detected' = m'.rooms
    /\ dpc' = "return"
    /\ UNCHANGED <<doc, file, scale, impl, area_scale, min_threshold, error>>
    /\ UNCHANGED <<dbVars, taskVars, fnVars>>

\* return rooms
Return ==
    /\ dpc = "return"
    /\ dpc' = "returned"
    /\ UNCHANGED <<doc, file, scale, impl, area_scale, min_threshold,
                   detected, error, m, calls>>
    /\ UNCHANGED <<dbVars, taskVars, fnVars>>

\* match_rooms called on its own, with the default threshold of its module or
\* with none, under each area scale.  The call takes no unit hint: it is made
\* from the states of one hint only.
CallMatchRooms ==
    /\ dpc = "start"
    /\ file = "ok"
    /\ scale = "mm"
    /\ \E den \in {MmDen, CmDen, MDen} :
       \E thr \in {0, IF impl = "enhanced" THEN 10000000 ELSE 1000000000} :
          /\ area_scale' = den
          /\ m' = Match(den, thr)
          /\ calls' = <<[thr |-> thr, n |-> Len(m'.rooms)]>>
    /\ dpc' = "called"
    /\ UNCHANGED <<doc, file, scale, impl, min_threshold, detected, error>>
    /\ UNCHANGED <<dbVars, taskVars, fnVars>>

NextDxf ==
    \/ ReadFile
    \/ EnhancedResolveUnits
    \/ BasicResolveUnits
    \/ FirstPass
    \/ Retry
    \/ Return
    \/ CallMatchRooms

SpecDxf == InitDxf /\ [][NextDxf]_vars

\* ------------------------------------------------------------ the database

\* Number of requests served in a behaviour.
MaxRuns == 2

\* Rows that exist when a request begins were produced before it.
MarkOld(rows) == {[r EXCEPT !.old = TRUE] : r \in rows}

MarkOldEstimate(e) == IF e.exists THEN [e EXCEPT !.old = TRUE] ELSE e

\* The primary key of a new row of `rows`.
NextId(rows) ==
    CHOOSE n \in 1..(Cardinality(rows) + 1) :
        /\ \A r \in rows : r.id # n
        /\ \A k \in 1..(n - 1) : \E r \in rows : r.id = k

\* The rows of a queryset in primary-key order.
RECURSIVE SortById(_)
SortById(rows) ==
    IF rows = {} THEN <<>>
    ELSE LET first == CHOOSE r \in rows : \A o \in rows : r.id <= o.id
         IN  <<first>> \o SortById(rows \ {first})

\* The project's derived rows as a reader's queries return them.
Snapshot(rooms, room_estimates, line_items, estimate) ==
    [Room |-> rooms, RoomEstimate |-> room_estimates,
     EstimateLineItem |-> line_items, Estimate |-> estimate]

\* Room.objects.filter(project=project).delete(): RoomEstimate.room is
\* on_delete=CASCADE, EstimateLineItem.room is on_delete=SET_NULL.
CascadeRoomEstimate(room_estimates, deleted) ==
    {re \in room_estimates : re.room \notin deleted}

SetNullLineItem(line_items, deleted) ==
    {IF li.room \in deleted THEN [li EXCEPT !.room = NULL] ELSE li :
        li \in line_items}

\* The rate cards the project's database may hold: none, or brickwork at 600
\* per sqm and floor tiling at 1265 per sqm.
RateCards ==
    {{},
     {[category |-> "Civil", item_name |-> "Brickwork", unit |-> "sqm",
       rate |-> 600, location |-> "", effective_from |-> 1,
       is_active |-> TRUE],
      [category |-> "Interior", item_name |-> "Floor Tiling", unit |-> "sqm",
       rate |-> 1265, location |-> "", effective_from |-> 1,
       is_active |-> TRUE]}}

\* The uploads posted: two labelled bedrooms of 12.00 sqm drawn in metres,
\* a 5.01 sqm bathroom drawn in millimetres, a 0.60 sqm closet, an empty
\* drawing, a DWG file (which ezdxf cannot read) and a PDF.  `processed` is
\* the value of that field in the request data (PlanUploadSerializer has
\* fields = "__all__"): absent, or true with the PDF.
Uploads ==
    {[file_type |-> "dxf", file |-> "ok", scale |-> "m", processed |-> FALSE,
      doc |-> <<Text(<<"b", "e", "d">>, 12, 12),
                Rect("LWPOLYLINE", 0, 0, 40, 30),
                Rect("LWPOLYLINE", 0, 0, 40, 30)>>],
     [file_type |-> "dxf", file |-> "ok", scale |-> "mm", processed |-> FALSE,
      doc |-> <<Text(<<" ", "W", "C", " ">>, 30, 20),
                Rect("LWPOLYLINE", 0, 0, 20040, 25000)>>],
     [file_type |-> "dxf", file |-> "ok", scale |-> "m", processed |-> FALSE,
      doc |-> <<Text(<<"b", "e", "d">>, 12, 12),
                Rect("LWPOLYLINE", 10, 10, 20, 16)>>],
     [file_type |-> "dxf", file |-> "ok", scale |-> "m", processed |-> FALSE,
      doc |-> <<>>],
     [file_type |-> "dwg", file |-> "corrupt", scale |-> "m",
      processed |-> FALSE, doc |-> <<>>],
     [file_type |-> "unknown", file |-> "ok", scale |-> "m",
      processed |-> FALSE, doc |-> <<>>],
     [file_type |-> "unknown", file |-> "ok", scale |-> "m",
      processed |-> TRUE, doc |-> <<>>]}

\* No detect_rooms_from_dxf call is in progress.
DxfIdle ==
    /\ doc = <<>>
    /\ file = "ok"
    /\ scale = "m"
    /\ impl = "basic"
    /\ dpc = "idle"
    /\ area_scale = Unbound
    /\ min_threshold = Unbound
    /\ detected = <<>>
    /\ error = ""
    /\ m = NoMatch
    /\ calls = <<>>

Init ==
    /\ DxfIdle
    /\ StoreIdle
    /\ RateCard \in RateCards
    /\ today = 2
    /\ FnIdle

\* A request arrives: no other request is being served (the server handles
\* the project's requests one after another), and the response of the last
\* read has gone to its caller.
BeginRequest(o, first) ==
    /\ pc \in {"idle", "done", "failed"}
    /\ runs < MaxRuns
    /\ runs' = runs + 1
    /\ op' = o
    /\ pc' = first
    /\ Room' = MarkOld(Room)
    /\ RoomEstimate' = MarkOld(RoomEstimate)
    /\ EstimateLineItem' = MarkOld(EstimateLineItem)
    /\ Estimate' = MarkOldEstimate(Estimate)
    /\ before' = Snapshot(Room', RoomEstimate', EstimateLineItem', Estimate')
    /\ last' = [op |-> op, pc |-> pc]
    /\ UNCHANGED other
    /\ call' = NoCall
    /\ ret' = NoRet
    /\ UNCHANGED <<RateCard, today>>

\* PlanUploadViewSet.create: serializer.save() stores the upload with the
\* fields of the request, the file type is set from the file name and, for
\* a dxf or dwg file, process_dxf_upload starts with the call of
\* detect_rooms_from_dxf(upload.file.path, scale=upload.scale).
CreateUpload ==
    \E u \in Uploads :
        /\ PlanUpload' = Append(PlanUpload, [file_type |-> u.file_type,
                                             processed |-> u.processed])
        /\ IF u.file_type \in {"dxf", "dwg"}
           THEN /\ BeginRequest("upload", "detect")
                /\ loc' = [InitLoc EXCEPT !.up = Len(PlanUpload')]
                /\ doc' = u.doc
                /\ file' = u.file
                /\ scale' = u.scale
                /\ dpc' = "start"
                /\ UNCHANGED <<impl, area_scale, min_threshold, detected,
                               error, m, calls>>
           ELSE /\ pc \in {"idle", "done", "failed"}
                /\ runs < MaxRuns
                /\ runs' = runs + 1
                /\ pc' = "idle"
                /\ op' = "none"
                /\ loc' = InitLoc
                /\ call' = NoCall
                /\ ret' = NoRet
                /\ UNCHANGED <<derivedVars, RateCard, today, before, last,
                               other, dxfVars>>

\* PATCH uploads/<id>/ (PlanUploadViewSet, a ModelViewSet registered with the
\* router): the serializer writes the `processed` of the request to the row.
UpdateUpload ==
    /\ pc \in {"idle", "done", "failed"}
    /\ runs < MaxRuns
    /\ runs' = runs + 1
    /\ \E i \in DOMAIN PlanUpload, b \in BOOLEAN :
          PlanUpload' = [PlanUpload EXCEPT ![i].processed = b]
    /\ pc' = "idle"
    /\ op' = "none"
    /\ loc' = InitLoc
    /\ call' = NoCall
    /\ ret' = NoRet
    /\ UNCHANGED <<derivedVars, RateCard, today, before, last, other, dxfVars>>

\* GET projects/<id>/upload-status/: the status of the project's upload
\* with the latest uploaded_at, the last one created.
project_upload_status(uploads) ==
    IF uploads = <<>> THEN "no_upload"
    ELSE IF uploads[Len(uploads)].processed THEN "completed"
    ELSE "processing"

\* The frame of detect_rooms_from_dxf is gone.
LeaveDxf ==
    /\ doc' = <<>>
    /\ file' = "ok"
    /\ scale' = "m"
    /\ dpc' = "idle"
    /\ area_scale' = Unbound
    /\ min_threshold' = Unbound
    /\ detected' = <<>>
    /\ error' = ""
    /\ m' = NoMatch
    /\ calls' = <<>>
    /\ UNCHANGED impl

\* process_dxf_upload: rooms_data = detect_rooms_from_dxf(...).  An exception
\* of the call leaves process_dxf_upload uncaught.
Detected ==
    /\ pc = "detect"
    /\ \/ /\ dpc = "returned"
          /\ loc' = [loc EXCEPT !.rooms_data = detected]
          /\ pc' = "delete_rooms"
       \/ /\ dpc = "raised"
          /\ pc' = "failed"
          /\ loc' = loc
    /\ LeaveDxf
    /\ UNCHANGED <<dbVars, op, before, last, other, runs, fnVars>>

\* process_dxf_upload: Room.objects.filter(project=project).delete()
DeleteRooms ==
    /\ pc = "delete_rooms"
    /\ LET deleted == {r.id : r \in Room}
       IN  /\ Room' = {}
           /\ RoomEstimate' = CascadeRoomEstimate(RoomEstimate, deleted)
           /\ EstimateLineItem' = SetNullLineItem(EstimateLineItem, deleted)
    /\ loc' = [loc EXCEPT !.saved = 0, !.i = 1]
    /\ pc' = "save_rooms"
    /\ UNCHANGED <<Estimate, PlanUpload, RateCard, today, op, before, last, other, runs,
                   dxfVars, fnVars>>

\* The Room row process_dxf_upload creates for the detected room r.
NewRoom(r, rooms) ==
    [id |-> NextId(rooms), name |-> classify_room(r.name, r.area),
     area |-> r.area, x_center |-> r.center[1], y_center |-> r.center[2],
     old |-> FALSE]

\* A variant of the loop's test that skips only the candidates of at most
\* 0.5 sqm, the matcher's floor.
SavesRoomAboveFloor ==
    /\ loc.i <= Len(loc.rooms_data)
    /\ loc.rooms_data[loc.i].area > 50

\* The next iteration of `for r in rooms_data` creates a row.
SavesRoom ==
    /\ loc.i <= Len(loc.rooms_data)
    /\ ~(loc.rooms_data[loc.i].area < 500)

\* process_dxf_upload: one iteration of `for r in rooms_data`, or the end of
\* the loop and `if saved > 0`.
SaveRoom ==
    /\ pc = "save_rooms"
    /\ IF loc.i > Len(loc.rooms_data)
       THEN /\ pc' = IF loc.saved > 0 THEN "g_exists" ELSE "mark_processed"
            /\ UNCHANGED <<Room, loc>>
       ELSE IF SavesRoom
       THEN /\ Room' = Room \cup {NewRoom(loc.rooms_data[loc.i], Room)}
            /\ loc' = [loc EXCEPT !.saved = @ + 1, !.i = @ + 1]
            /\ pc' = pc
       ELSE /\ loc' = [loc EXCEPT !.i = @ + 1]
            /\ pc' = pc
            /\ UNCHANGED Room
    /\ UNCHANGED <<RoomEstimate, EstimateLineItem, Estimate, PlanUpload,
                   RateCard, today, op, before, last, other, runs, dxfVars, fnVars>>

\* process_dxf_upload: upload.processed = True; upload.save()
MarkProcessed ==
    /\ pc = "mark_processed"
    /\ PlanUpload' = [PlanUpload EXCEPT ![loc.up].processed = TRUE]
    /\ pc' = "done"
    /\ UNCHANGED <<derivedVars, RateCard, today, op, loc, before, last, other, runs,
                   dxfVars, fnVars>>

\* ------------------------------------------ generate_detailed_estimate

\* POST regenerate-estimate: regenerate_detailed_estimate calls
\* generate_detailed_estimate(project_id).
RegenerateDetailed ==
    /\ BeginRequest("detailed", "g_exists")
    /\ loc' = InitLoc
    /\ UNCHANGED <<PlanUpload, dxfVars>>

\* if not rooms.exists(): return None
DetailedExists ==
    /\ pc = "g_exists"
    /\ pc' = IF Room = {} THEN "done" ELSE "g_delete_items"
    /\ UNCHANGED <<dbVars, op, loc, before, last, other, runs, dxfVars, fnVars>>

\* A variant that keeps the line items of earlier runs.
KeepLineItems ==
    /\ pc = "g_delete_items"
    /\ pc' = "g_delete_room_estimates"
    /\ UNCHANGED <<dbVars, op, loc, before, last, other, runs, dxfVars, fnVars>>

\* EstimateLineItem.objects.filter(estimate__project_id=project_id).delete()
DetailedDeleteLineItems ==
    /\ pc = "g_delete_items"
    /\ EstimateLineItem' = {}
    /\ pc' = "g_delete_room_estimates"
    /\ UNCHANGED <<Room, RoomEstimate, Estimate, PlanUpload, RateCard, today,
                   op, loc, before, last, other, runs, dxfVars, fnVars>>

\* RoomEstimate.objects.filter(project_id=project_id).delete()
DetailedDeleteRoomEstimates ==
    /\ pc = "g_delete_room_estimates"
    /\ RoomEstimate' = {}
    /\ pc' = "g_get_or_create"
    /\ UNCHANGED <<Room, EstimateLineItem, Estimate, PlanUpload, RateCard,
                   today, op, loc, before, last, other, runs, dxfVars, fnVars>>

\* Estimate(project_id=project_id) with the defaults of its fields.
NewEstimate ==
    [exists |-> TRUE, total_tiles_sqm |-> 0, total_paint_sqm |-> 0,
     cement_bags |-> 0, sand_tons |-> 0, total_cost |-> 0, old |-> FALSE]

\* estimate, _ = Estimate.objects.get_or_create(project_id=project_id)
DetailedGetOrCreate ==
    /\ pc = "g_get_or_create"
    /\ Estimate' = IF Estimate.exists THEN Estimate ELSE NewEstimate
    /\ loc' = [loc EXCEPT !.total_cost = 0, !.line_items_data = <<>>]
    /\ pc' = "g_rooms"
    /\ UNCHANGED <<Room, RoomEstimate, EstimateLineItem, PlanUpload, RateCard,
                   today, op, before, last, other, runs, dxfVars, fnVars>>

\* for room in rooms: the queryset is evaluated.
DetailedRooms ==
    /\ pc = "g_rooms"
    /\ loc' = [loc EXCEPT !.qs = SortById(Room), !.i = 1, !.k = 1,
                          !.room_cost = 0]
    /\ pc' = IF Room = {} THEN "g_save" ELSE "g_item"
    /\ UNCHANGED <<dbVars, op, before, last, other, runs, dxfVars, fnVars>>

\* One EstimateLineItem.objects.create(...) of the loop body, with
\* room_cost += item.amount and line_items_data.append(item).
DetailedLineItem ==
    /\ pc = "g_item"
    /\ LET item == [id |-> NextId(EstimateLineItem)]
                   @@ NewLineItem(loc.k, loc.qs[loc.i], RateCard, today)
       IN  /\ EstimateLineItem' = EstimateLineItem \cup {item}
           /\ loc' = [loc EXCEPT !.room_cost = @ + item.amount,
                                 !.line_items_data = Append(@, item),
                                 !.k = @ + 1]
    /\ pc' = IF loc.k = Len(WorkItems) THEN "g_room_estimate" ELSE pc
    /\ UNCHANGED <<Room, RoomEstimate, Estimate, PlanUpload, RateCard, today,
                   op, before, last, other, runs, dxfVars, fnVars>>

\* RoomEstimate.objects.create(...); total_cost += room_cost; next room.
DetailedRoomSummary ==
    /\ pc = "g_room_estimate"
    /\ LET row == [id |-> NextId(RoomEstimate)]
                  @@ DetailedRoomEstimate(loc.qs[loc.i], loc.room_cost)
       IN  RoomEstimate' = RoomEstimate \cup {row}
    /\ loc' = [loc EXCEPT !.total_cost = @ + loc.room_cost, !.i = @ + 1,
                          !.k = 1, !.room_cost = 0]
    /\ pc' = IF loc.i = Len(loc.qs) THEN "g_save" ELSE "g_item"
    /\ UNCHANGED <<Room, EstimateLineItem, Estimate, PlanUpload, RateCard,
                   today, op, before, last, other, runs, dxfVars, fnVars>>

\* The totals are assigned to the estimate object and estimate.save() writes
\* them; generate_detailed_estimate returns to its caller.
DetailedSave ==
    /\ pc = "g_save"
    /\ Estimate' = [exists |-> TRUE]
                   @@ DetailedTotals(loc.line_items_data, loc.total_cost)
    /\ pc' = IF op = "upload" THEN "mark_processed" ELSE "done"
    /\ UNCHANGED <<Room, RoomEstimate, EstimateLineItem, PlanUpload, RateCard,
                   today, op, loc, before, last, other, runs, dxfVars, fnVars>>

\* ---------------------------------------------------- generate_estimate

\* POST generate: GenerateEstimateAPIView.post calls
\* generate_estimate(project_id).
GenerateSummary ==
    /\ BeginRequest("summary", "s_exists")
    /\ loc' = InitLoc
    /\ UNCHANGED <<PlanUpload, dxfVars>>

\* if not rooms.exists(): return None
SummaryExists ==
    /\ pc = "s_exists"
    /\ pc' = IF Room = {} THEN "done" ELSE "s_delete_room_estimates"
    /\ UNCHANGED <<dbVars, op, loc, before, last, other, runs, dxfVars, fnVars>>

\* RoomEstimate.objects.filter(project_id=project_id).delete(); the totals
\* start at 0.  The project's EstimateLineItem rows are not touched.
SummaryDeleteRoomEstimates ==
    /\ pc = "s_delete_room_estimates"
    /\ RoomEstimate' = {}
    /\ loc' = [loc EXCEPT !.total_tiles = 0, !.total_paint = 0,
                          !.total_cement = 0, !.total_sand = 0,
                          !.total_cost = 0]
    /\ pc' = "s_rooms"
    /\ UNCHANGED <<Room, EstimateLineItem, Estimate, PlanUpload, RateCard,
                   today, op, before, last, other, runs, dxfVars, fnVars>>

\* for room in rooms: the queryset is evaluated.
SummaryRooms ==
    /\ pc = "s_rooms"
    /\ loc' = [loc EXCEPT !.qs = SortById(Room), !.i = 1]
    /\ pc' = IF Room = {} THEN "s_update_or_create" ELSE "s_room_estimate"
    /\ UNCHANGED <<dbVars, op, before, last, other, runs, dxfVars, fnVars>>

\* One iteration: RoomEstimate.objects.create(...) and the running totals.
SummaryRoomStep ==
    /\ pc = "s_room_estimate"
    /\ LET room == loc.qs[loc.i]
           e == SummaryRoom(room)
           row == [id |-> NextId(RoomEstimate)] @@ SummaryRoomEstimate(room)
       IN  /\ RoomEstimate' = RoomEstimate \cup {row}
           /\ loc' = [loc EXCEPT !.total_tiles = @ + e.tiles_sqm,
                                 !.total_paint = @ + e.paint_sqm,
                                 !.total_cement = @ + e.cement_bags,
                                 !.total_sand = @ + e.sand_tons,
                                 !.total_cost = @ + e.cost,
                                 !.i = @ + 1]
    /\ pc' = IF loc.i = Len(loc.qs) THEN "s_update_or_create" ELSE pc
    /\ UNCHANGED <<Room, EstimateLineItem, Estimate, PlanUpload, RateCard,
                   today, op, before, last, other, runs, dxfVars, fnVars>>

\* The defaults generate_estimate passes to update_or_create: areas and money
\* in hundredths (total_paint is kept in thousandths while it is summed).
SummaryTotals(l) ==
    [total_tiles_sqm |-> l.total_tiles,
     total_paint_sqm |-> RoundHalfEven(l.total_paint, 10),
     cement_bags |-> l.total_cement, sand_tons |-> l.total_sand,
     total_cost |-> l.total_cost, old |-> FALSE]

\* Estimate.objects.update_or_create(project_id=project_id, defaults={...})
SummaryUpdateOrCreate ==
    /\ pc = "s_update_or_create"
    /\ Estimate' = [exists |-> TRUE] @@ SummaryTotals(loc)
    /\ pc' = "done"
    /\ UNCHANGED <<Room, RoomEstimate, EstimateLineItem, PlanUpload, RateCard,
                   today, op, loc, before, last, other, runs, dxfVars, fnVars>>

\* ---------------------------------------------------------------- reads

\* No request is being served.
Quiescent == pc \in {"idle", "done", "failed"}

\* GET estimate-by-category: estimate_by_category(request, project_id).
EstimateByCategory ==
    /\ Quiescent
    /\ call' = [fn |-> "estimate_by_category"]
    /\ ret' = Returned(estimate_by_category(Estimate, EstimateLineItem))
    /\ UNCHANGED <<dbVars, taskVars, dxfVars>>

\* GET estimate-detailed: estimate_detailed(request, project_id) returns what
\* get_detailed_estimate_for_api(project_id) built.
EstimateDetailed ==
    /\ Quiescent
    /\ call' = [fn |-> "estimate_detailed"]
    /\ ret' = Returned(estimate_detailed(Estimate, EstimateLineItem, Room))
    /\ UNCHANGED <<dbVars, taskVars, dxfVars>>

\* ------------------------------------------------------------- failures

\* The request is about to run a database query.
Querying ==
    \/ pc \in {"delete_rooms", "mark_processed", "g_exists", "g_delete_items",
               "g_delete_room_estimates", "g_get_or_create", "g_rooms",
               "g_item", "g_room_estimate", "g_save", "s_exists",
               "s_delete_room_estimates", "s_rooms", "s_room_estimate",
               "s_update_or_create"}
    \/ pc = "save_rooms" /\ SavesRoom

\* The query raises (the database is unreachable, a write is rejected): no
\* function of the pipeline catches the exception, and nothing undoes the
\* queries already committed.
DbError ==
    /\ Querying
    /\ pc' = "failed"
    /\ UNCHANGED <<dbVars, op, loc, before, last, other, runs, dxfVars, fnVars>>

Next ==
    \/ CreateUpload
    \/ UpdateUpload
    \/ ReadFile
    \/ BasicResolveUnits
    \/ FirstPass
    \/ Retry
    \/ Return
    \/ Detected
    \/ DeleteRooms
    \/ SaveRoom
    \/ MarkProcessed
    \/ RegenerateDetailed
    \/ DetailedExists
    \/ DetailedDeleteLineItems
    \/ DetailedDeleteRoomEstimates
    \/ DetailedGetOrCreate
    \/ DetailedRooms
    \/ DetailedLineItem
    \/ DetailedRoomSummary
    \/ DetailedSave
    \/ GenerateSummary
    \/ SummaryExists
    \/ SummaryDeleteRoomEstimates
    \/ SummaryRooms
    \/ SummaryRoomStep
    \/ SummaryUpdateOrCreate
    \/ EstimateByCategory
    \/ EstimateDetailed
    \/ DbError

Spec == Init /\ [][Next]_vars

\* ---------------------------------------------------------- regeneration
\* The estimation requests of a project whose rooms are stored.

\* The rooms an upload has stored: the two bedrooms of 12.00 sqm, one of them,
\* the bathroom of 5.01 sqm.
StoredRooms ==
    LET bedroom(n) ==
            [id |-> n, name |-> <<"B", "e", "d", "r", "o", "o", "m">>,
             area |-> 1200, x_center |-> 40, y_center |-> 30, old |-> FALSE]
    IN  {{bedroom(1), bedroom(2)}, {bedroom(1)},
         {[id |-> 1, name |-> <<"B", "a", "t", "h", "r", "o", "o", "m">>,
           area |-> 501, x_center |-> 20040, y_center |-> 25000,
           old |-> FALSE]}}

\* process_dxf_upload has saved the rooms of the first upload and the first
\* query of generate_detailed_estimate has raised: rooms are stored, no
\* estimate is.
InitRegen ==
    /\ DxfIdle
    /\ FnIdle
    /\ Room \in StoredRooms
    /\ RoomEstimate = {}
    /\ EstimateLineItem = {}
    /\ Estimate = NoEstimate
    /\ PlanUpload = <<[file_type |-> "dxf", processed |-> FALSE]>>
    /\ RateCard \in RateCards
    /\ today = 2
    /\ pc = "failed"
    /\ op = "upload"
    /\ loc = InitLoc
    /\ before = [Room |-> {}, RoomEstimate |-> {}, EstimateLineItem |-> {},
                 Estimate |-> NoEstimate]
    /\ last = [op |-> "none", pc |-> "idle"]
    /\ other = NoRun
    /\ runs = 0

NextRegen ==
    \/ RegenerateDetailed
    \/ DetailedExists
    \/ DetailedDeleteLineItems
    \/ DetailedDeleteRoomEstimates
    \/ DetailedGetOrCreate
    \/ DetailedRooms
    \/ DetailedLineItem
    \/ DetailedRoomSummary
    \/ DetailedSave
    \/ GenerateSummary
    \/ SummaryExists
    \/ SummaryDeleteRoomEstimates
    \/ SummaryRooms
    \/ SummaryRoomStep
    \/ SummaryUpdateOrCreate
    \/ EstimateByCategory
    \/ EstimateDetailed
    \/ DbError

SpecRegen == InitRegen /\ [][NextRegen]_vars

\* ------------------------------------------------- concurrent regeneration
\* Two POST regenerate-estimate requests for one project are served by two
\* workers.  The variables pc and loc are those of the worker that takes the
\* next step; `other` holds those of the worker that waits.  No lock and no
\* transaction.atomic is taken by regenerate_detailed_estimate or by
\* generate_detailed_estimate, so the other worker may step after any query.

\* The worker has run a query of generate_detailed_estimate and has more to
\* run.
MidRun(p) == p \notin {"g_exists", "done", "failed"}

\* A lock around the run: the other worker steps only between runs.
SwitchBetweenRuns ==
    /\ other # NoRun
    /\ other.pc \notin {"done", "failed"}
    /\ ~MidRun(pc)
    /\ pc' = other.pc
    /\ loc' = other.loc
    /\ other' = [pc |-> pc, loc |-> loc, overlapped |-> other.overlapped]
    /\ UNCHANGED <<dbVars, op, before, last, runs, dxfVars, fnVars>>

\* The scheduler lets the other worker run.  `overlapped` records that a
\* worker was left in the middle of its run.
Switch ==
    /\ other # NoRun
    /\ other.pc \notin {"done", "failed"}
    /\ pc' = other.pc
    /\ loc' = other.loc
    /\ other' = [pc |-> pc, loc |-> loc,
                 overlapped |-> other.overlapped \/ MidRun(pc)]
    /\ UNCHANGED <<dbVars, op, before, last, runs, dxfVars, fnVars>>

\* Both requests have arrived; one room is stored and no estimate is.
InitConcurrent ==
    /\ DxfIdle
    /\ FnIdle
    /\ Room \in {rooms \in StoredRooms : Cardinality(rooms) = 1}
    /\ RoomEstimate = {}
    /\ EstimateLineItem = {}
    /\ Estimate = NoEstimate
    /\ PlanUpload = <<[file_type |-> "dxf", processed |-> FALSE]>>
    /\ RateCard \in RateCards
    /\ today = 2
    /\ pc = "g_exists"
    /\ op = "detailed"
    /\ loc = InitLoc
    /\ before = [Room |-> {}, RoomEstimate |-> {}, EstimateLineItem |-> {},
                 Estimate |-> NoEstimate]
    /\ last = [op |-> "none", pc |-> "idle"]
    /\ other = [pc |-> "g_exists", loc |-> InitLoc, overlapped |-> FALSE]
    /\ runs = 0

NextConcurrent ==
    \/ Switch
    \/ DetailedExists
    \/ DetailedDeleteLineItems
    \/ DetailedDeleteRoomEstimates
    \/ DetailedGetOrCreate
    \/ DetailedRooms
    \/ DetailedLineItem
    \/ DetailedRoomSummary
    \/ DetailedSave
    \/ DbError

SpecConcurrent == InitConcurrent /\ [][NextConcurrent]_vars

\* ------------------------------------------- functions that write nothing
\* One call of a function on arguments (and on database rows) drawn from the
\* sets below.

\* Number of boundaries handed to auto_detect_units.
MaxBoundaries == 2

\* The boundaries handed to auto_detect_units: rectangles (sides in tenths
\* of a unit) of 9, 10, 11, 99,999, 100,000, 100,001, 999,999, 1,000,000 and
\* 1,000,001 square units.
UnitBoundaries ==
    {Polygon(Rect("LWPOLYLINE", 0, 0, size[1], size[2]).pts) :
        size \in {<<30, 30>>, <<50, 20>>, <<110, 10>>,
                  <<999990, 10>>, <<10000, 1000>>, <<1000010, 10>>,
                  <<9999990, 10>>, <<10000, 10000>>, <<10000010, 10>>}}

AutoDetectCalls ==
    {[fn |-> "auto_detect_units", boundaries |-> b] :
        b \in SeqsUpTo(UnitBoundaries, MaxBoundaries)}

\* The names handed to the classifier: the empty one, a blank one, names
\* with one keyword, with keywords of two rules, and with none.
ClassifierTexts ==
    {<<>>,
     <<" ">>,
     <<"b", "e", "d">>,
     <<" ", "W", "C", " ">>,
     <<"S", "t", "o", "r", "e", " ", "b", "e", "d">>,
     <<"b", "a", "t", "h", " ", "k", "i", "t", "c", "h", "e", "n">>,
     <<"l", "o", "u", "n", "g", "e", " ", "d", "i", "n", "i", "n", "g">>,
     <<"s", "e", "r", "v", "a", "n", "t", " ", "b", "a", "l", "c", "o", "n", "y">>,
     <<"x", "y", "z">>,
     <<"H", "a", "l", "l", " ", "2">>,
     <<"d", "i", "n", "i", "n", "g", " ", "L", "I", "V", "I", "N", "G">>,
     <<"B", "a", "l", "c", "o", "n", "y", " ", "s", "t", "o", "r", "e">>}

\* A name argument: a string, or None.
ClassifierNames ==
    {[none |-> FALSE, text |-> t] : t \in ClassifierTexts}
        \cup {[none |-> TRUE, text |-> <<>>]}

\* The areas handed to the classifier, in hundredths of a square metre: the
\* bucket limits of the two modules and their neighbours.
ClassifierAreas ==
    {200, 400, 401, 499, 500, 900, 901, 999, 1000, 1200, 1201, 1999, 2000, 2500}

ClassifierCalls ==
    {[fn |-> "ai_classify_room", module |-> mod, name |-> n, area |-> a] :
        mod \in {"services", "prompts"}, n \in ClassifierNames,
        a \in ClassifierAreas}

\* The calls of the model.
\* The RateCard rows a rate lookup may find: three versions of the brickwork
\* rate (the third not yet in force on day 2), a withdrawn one, one of another
\* location effective on the same day as the second, and a plastering rate.
RateCardRows ==
    {[category |-> "Civil", item_name |-> "Brickwork", unit |-> "sqm",
      rate |-> 500, location |-> "", effective_from |-> 1, is_active |-> TRUE],
     [category |-> "Civil", item_name |-> "Brickwork", unit |-> "sqm",
      rate |-> 550, location |-> "", effective_from |-> 2, is_active |-> TRUE],
     [category |-> "Civil", item_name |-> "Brickwork", unit |-> "sqm",
      rate |-> 700, location |-> "", effective_from |-> 3, is_active |-> TRUE],
     [category |-> "Civil", item_name |-> "Brickwork", unit |-> "cum",
      rate |-> 650, location |-> "", effective_from |-> 2, is_active |-> FALSE],
     [category |-> "Civil", item_name |-> "Brickwork", unit |-> "sqft",
      rate |-> 56, location |-> "Pune", effective_from |-> 2,
      is_active |-> TRUE],
     [category |-> "Civil", item_name |-> "Plastering", unit |-> "sqm",
      rate |-> 200, location |-> "", effective_from |-> 1, is_active |-> TRUE]}

\* get_rate_for_item(category, item_name): the item asked for, and whether the
\* RateCard query raises (the table is missing, the connection is lost).
RateCalls ==
    {[fn |-> "get_rate_for_item", category |-> k[1], item_name |-> k[2],
      db |-> d] :
        k \in {<<"Civil", "Brickwork">>, <<"Civil", "Plastering">>,
               <<"Electrical", "Switch Board">>,
               <<"Electrical", "Switch Boards">>, <<"Flooring", "Marble">>},
        d \in {"ok", "error"}}

\* Number of entities of a drawing handed to the extraction functions.
MaxEntities == 2

\* What processing one entity raises: nothing, or an exception of the entity's
\* accessors or of shapely (an attribute is missing, the geometry is rejected,
\* a value is not a number or is out of range).
EntityFaults ==
    {"none", "AttributeError", "ShapelyError", "ValueError", "TypeError"}

\* extract_room_labels(doc) and extract_room_boundaries(doc, thr) over the
\* entities of doc; faults[i] is what processing entity i raises.
ExtractCalls ==
    {[fn |-> f, doc |-> d, faults |-> x, thr |-> 100] :
        f \in {"extract_room_labels", "extract_room_boundaries"},
        d \in SeqsUpTo({Text(<<"b", "e", "d">>, 12, 12),
                        Rect("LWPOLYLINE", 0, 0, 40, 30)}, MaxEntities)
              \ {<<>>},
        x \in SeqsUpTo(EntityFaults, MaxEntities)}

\* The calls in which every entity has its fault.
WellFormedExtractCalls == {c \in ExtractCalls : Len(c.faults) = Len(c.doc)}

Calls ==
    AutoDetectCalls \cup ClassifierCalls \cup RateCalls
        \cup WellFormedExtractCalls

InitFn ==
    /\ DxfIdle
    /\ StoreIdle
    /\ call \in Calls
    /\ RateCard \in (IF call.fn = "get_rate_for_item" THEN SUBSET RateCardRows
                     ELSE {{}})
    /\ today \in (IF call.fn = "get_rate_for_item" THEN {2, 3} ELSE {2})
    /\ ret = NoRet

\* detected_unit, area_scale = auto_detect_units(boundaries)
CallAutoDetectUnits ==
    /\ call.fn = "auto_detect_units"
    /\ ret = NoRet
    /\ ret' = Returned(auto_detect_units(call.boundaries))
    /\ UNCHANGED <<call, dxfVars, dbVars, taskVars>>

\* apps/ai/services.py: ai_classify_room(raw_name, area).  `not raw_name`
\* holds for None as for the empty string.
CallAiClassifyRoom ==
    /\ call.fn = "ai_classify_room"
    /\ call.module = "services"
    /\ ret = NoRet
    /\ ret' = Returned(ai_classify_room(
                   IF call.name.none THEN <<>> ELSE call.name.text, call.area))
    /\ UNCHANGED <<call, dxfVars, dbVars, taskVars>>

\* apps/ai/prompts.py: ai_classify_room(raw_name, area).  raw_name.upper()
\* raises AttributeError on None.
CallAiClassifyRoomPrompts ==
    /\ call.fn = "ai_classify_room"
    /\ call.module = "prompts"
    /\ ret = NoRet
    /\ ret' = IF call.name.none THEN Raised("AttributeError")
              ELSE Returned(ai_classify_room_prompts(call.name.text, call.area))
    /\ UNCHANGED <<call, dxfVars, dbVars, taskVars>>

\* rate = get_rate_for_item(category, item_name).  An exception of the query
\* is swallowed by the bare except and the default rate is returned.
CallGetRateForItem ==
    /\ call.fn = "get_rate_for_item"
    /\ ret = NoRet
    /\ \E r \in (IF call.db = "error"
                 THEN {DEFAULT_RATES(call.category, call.item_name)}
                 ELSE RatesForItem(RateCard, today, call.category,
                                   call.item_name)) :
          ret' = Returned(r)
    /\ UNCHANGED <<call, dxfVars, dbVars, taskVars>>

\* The entities whose processing raises nothing, in file order.
RECURSIVE Sound(_, _)
Sound(entities, faults) ==
    IF entities = <<>> THEN <<>>
    ELSE (IF Head(faults) = "none" THEN <<Head(entities)>> ELSE <<>>)
         \o Sound(Tail(entities), Tail(faults))

\* The exceptions of `faults` that the except clause does not name, in file
\* order.
Escaping(faults, caught) == SelectSeq(faults, LAMBDA x : x \notin caught)

\* labels = extract_room_labels(doc): `except Exception` skips the entity
\* whatever it raised.
CallExtractRoomLabels ==
    /\ call.fn = "extract_room_labels"
    /\ ret = NoRet
    /\ ret' = Returned(extract_room_labels(Sound(call.doc, call.faults)))
    /\ UNCHANGED <<call, dxfVars, dbVars, taskVars>>

\* boundaries = extract_room_boundaries(doc, thr) of dxf_processor_enhanced:
\* `except (ShapelyError, AttributeError)` skips the entity; any other
\* exception leaves the loop and the function.
CallExtractRoomBoundaries ==
    /\ call.fn = "extract_room_boundaries"
    /\ ret = NoRet
    /\ LET escaping == Escaping(call.faults,
                                {"none", "ShapelyError", "AttributeError"})
       IN  ret' = IF escaping # <<>> THEN Raised(Head(escaping))
                  ELSE Returned(extract_room_boundaries_enhanced(
                                    Sound(call.doc, call.faults), call.thr))
    /\ UNCHANGED <<call, dxfVars, dbVars, taskVars>>

NextFn ==
    \/ CallExtractRoomLabels
    \/ CallExtractRoomBoundaries
    \/ CallAutoDetectUnits
    \/ CallAiClassifyRoom
    \/ CallAiClassifyRoomPrompts
    \/ CallGetRateForItem

SpecFn == InitFn /\ [][NextFn]_vars

\* ------------------------------------------------- properties of matching

\* The rooms of the latest call that were built from boundary i.
RoomsOf(i) == {r \in 1..Len(m.rooms) : m.rooms[r].b = i}

\* The labels whose point boundary i contains.
LabelsIn(i) ==
    {j \in 1..Len(m.labels) : contains(m.boundaries[i], m.labels[j].point)}

\* C5: in the result of match_rooms (of either module) no label is matched
\* to more than one boundary: two rooms named by the same label are the same
\* room.
C5_LabelMatchedOnce ==
    m # NoMatch =>
        \A r1, r2 \in 1..Len(m.rooms) :
            (m.rooms[r1].l # 0 /\ m.rooms[r1].l = m.rooms[r2].l) => r1 = r2

\* C6: every boundary the extractor returned whose scaled area exceeds
\* 0.5 sqm yields exactly one room of match_rooms (of either module), and the
\* rooms are in boundary order.
C6_MatchingTotal ==
    m # NoMatch =>
        /\ \A i \in 1..Len(m.boundaries) :
              area_sqm(m.boundaries[i], m.den) > 50
                  => Cardinality(RoomsOf(i)) = 1
        /\ \A r1, r2 \in 1..Len(m.rooms) :
              r1 < r2 => m.rooms[r1].b < m.rooms[r2].b

\* C7: in the enhanced match_rooms the label found for boundary i is the
\* lowest-indexed label inside it that no earlier boundary consumed (none
\* when there is no such label); the rooms follow boundary order and carry
\* the name of the label found.
C7_FirstUnconsumedLabel ==
    (m # NoMatch /\ m.impl = "enhanced") =>
        /\ Len(m.matched) = Len(m.boundaries)
        /\ \A i \in 1..Len(m.boundaries) :
              LET free == {j \in LabelsIn(i) :
                              \A k \in 1..(i - 1) : m.matched[k] # j}
              IN  IF free = {} THEN m.matched[i] = 0
                  ELSE /\ m.matched[i] \in free
                       /\ \A j \in free : m.matched[i] <= j
        /\ \A r \in 1..Len(m.rooms) :
              /\ m.rooms[r].l = m.matched[m.rooms[r].b]
              /\ m.rooms[r].l # 0 => m.rooms[r].name = m.labels[m.rooms[r].l].name
        /\ \A r1, r2 \in 1..Len(m.rooms) :
              r1 < r2 => m.rooms[r1].b < m.rooms[r2].b

\* C7 witness: an enhanced call in which a boundary contains two labels, an
\* earlier boundary consumed the first of them, and the boundary got the
\* second.
C7_Witness ==
    /\ m # NoMatch
    /\ m.impl = "enhanced"
    /\ \E i \in 1..Len(m.boundaries) :
          /\ m.matched[i] = 2
          /\ 1 \in LabelsIn(i)
          /\ \E k \in 1..(i - 1) : m.matched[k] = 1

\* C8: in match_rooms (of either module) a boundary for which no label was
\* found is named ROOM_<n>, n its 1-based position among the boundaries, when
\* its scaled area exceeds 0.5 sqm, and yields no room otherwise.
C8_SynthesizedName ==
    m # NoMatch =>
        \A i \in 1..Len(m.boundaries) :
            m.matched[i] = 0 =>
                IF area_sqm(m.boundaries[i], m.den) > 50
                THEN /\ RoomsOf(i) # {}
                     /\ \A r \in RoomsOf(i) : m.rooms[r].name = RoomName(i)
                ELSE RoomsOf(i) = {}

\* ------------------------------------ properties of detect_rooms_from_dxf

\* C9: the enhanced detect_rooms_from_dxf raises nothing on a readable
\* drawing, whatever the unit hint; with no closed boundary it returns the
\* empty list.
C9_DetectNeverFails ==
    (impl = "enhanced" /\ file = "ok") =>
        /\ dpc # "raised"
        /\ (dpc = "returned" /\ extract_room_boundaries_enhanced(doc, 0) = <<>>)
              => detected = <<>>

\* C10 as claimed: an empty first pass is followed by a pass at a tenth of
\* the threshold and, if that is empty too, by one at a hundredth; a pass
\* that returned a room is the last one.
C10_RetryLadder ==
    (dpc = "returned" /\ calls # <<>>) =>
        /\ calls[1].n = 0 =>
              /\ Len(calls) >= 2
              /\ calls[2].thr * 10 = calls[1].thr
              /\ calls[2].n = 0 =>
                    /\ Len(calls) = 3
                    /\ calls[3].thr * 100 = calls[1].thr
        /\ \A k \in 1..Len(calls) : calls[k].n > 0 => Len(calls) = k

\* C10 amended: an empty first pass is followed by exactly one more pass, at
\* a hundredth of the threshold in the enhanced module and at a tenth of it
\* in the basic one, whose rooms (possibly none) are returned; a first pass
\* that returned a room is the only one and its rooms are returned.
C10_SingleRetry ==
    (dpc = "returned" /\ calls # <<>>) =>
        /\ calls[1].thr = min_threshold
        /\ calls[1].n = 0 =>
              /\ Len(calls) = 2
              /\ calls[2].thr * (IF impl = "enhanced" THEN 100 ELSE 10)
                    = calls[1].thr
        /\ calls[1].n > 0 => Len(calls) = 1
        /\ m.thr = calls[Len(calls)].thr
        /\ detected = m.rooms
        /\ Len(detected) = calls[Len(calls)].n

\* C10 witness: a call that returned the rooms its retry found.
C10_Witness ==
    /\ dpc = "returned"
    /\ Len(calls) = 2
    /\ calls[1].n = 0
    /\ detected # <<>>


\* C12: with the hint mm, cm or m detect_rooms_from_dxf (of either module)
\* uses the area factor and the minimum raw-area floor of the hint, mm: 1e-6
\* and 1000, cm: 1e-4 and 10, m: 1.0 and 0.01, whatever the boundaries of the
\* drawing.  The factor is 1/area_scale, the floor is in 1/10000 of a square
\* unit.
C12_DirectUnitMapping ==
    (dpc = "pass1" /\ scale \in {"mm", "cm", "m"}) =>
        <<area_scale, min_threshold>> =
            (CASE scale = "mm" -> <<1000000, 10000000>>
               [] scale = "cm" -> <<10000, 100000>>
               [] scale = "m" -> <<1, 100>>)

\* ------------------------------------------- properties of the functions

\* C11: on a non-empty boundary list auto_detect_units gives mm for a mean
\* raw area above 1,000,000, m for a mean from 10 to 100,000 (both ends
\* included), cm for a mean below 10 and mm for every other mean.  The sum s
\* of the areas is in hundredths of a square unit.
C11_UnitInference ==
    (call.fn = "auto_detect_units" /\ ret # NoRet /\ call.boundaries # <<>>) =>
        LET n == Len(call.boundaries)
            s == SumArea(call.boundaries)
        IN  /\ ret.kind = "return"
            /\ ret.value.unit =
                  (IF s > 100000000 * n THEN "mm"
                   ELSE IF s >= 1000 * n /\ s <= 10000000 * n THEN "m"
                   ELSE IF s < 1000 * n THEN "cm"
                   ELSE "mm")

\* The closed set of room types.
RoomTypes ==
    {<<"B", "e", "d", "r", "o", "o", "m">>,
     <<"B", "a", "t", "h", "r", "o", "o", "m">>,
     <<"K", "i", "t", "c", "h", "e", "n">>,
     <<"L", "i", "v", "i", "n", "g", " ", "R", "o", "o", "m">>,
     <<"D", "i", "n", "i", "n", "g", " ", "R", "o", "o", "m">>,
     <<"S", "e", "r", "v", "a", "n", "t", " ", "R", "o", "o", "m">>,
     <<"S", "t", "o", "r", "e", " ", "R", "o", "o", "m">>,
     <<"B", "a", "l", "c", "o", "n", "y">>,
     <<"O", "t", "h", "e", "r">>}

\* C13: for every string name and every area ai_classify_room (of
\* apps/ai/services.py and of apps/ai/prompts.py) raises nothing and returns
\* one value of the closed set of room types.
C13_ClassifierTotal ==
    (call.fn = "ai_classify_room" /\ ret # NoRet /\ ~call.name.none) =>
        /\ ret.kind = "return"
        /\ ret.value \in RoomTypes

\* C13 witness: services.py has classified a name without a keyword, of an
\* area below every bucket, as Other.
C13_Witness ==
    /\ call.fn = "ai_classify_room"
    /\ call.module = "services"
    /\ call.name = [none |-> FALSE, text |-> <<"x", "y", "z">>]
    /\ call.area = 499
    /\ ret = Returned(<<"O", "t", "h", "e", "r">>)

\* The keyword rules in the order the spec gives them.
KeywordRules ==
    <<[keywords |-> {<<"B", "E", "D">>},
        type |-> <<"B", "e", "d", "r", "o", "o", "m">>],
       [keywords |-> {<<"T", "O", "I", "L", "E", "T">>, <<"B", "A", "T", "H">>, <<"W", "C">>},
        type |-> <<"B", "a", "t", "h", "r", "o", "o", "m">>],
       [keywords |-> {<<"K", "I", "T", "C", "H", "E", "N">>},
        type |-> <<"K", "i", "t", "c", "h", "e", "n">>],
       [keywords |-> {<<"L", "I", "V", "I", "N", "G">>, <<"L", "O", "U", "N", "G", "E">>},
        type |-> <<"L", "i", "v", "i", "n", "g", " ", "R", "o", "o", "m">>],
       [keywords |-> {<<"D", "I", "N", "I", "N", "G">>},
        type |-> <<"D", "i", "n", "i", "n", "g", " ", "R", "o", "o", "m">>],
       [keywords |-> {<<"S", "E", "R", "V", "A", "N", "T">>},
        type |-> <<"S", "e", "r", "v", "a", "n", "t", " ", "R", "o", "o", "m">>],
       [keywords |-> {<<"S", "T", "O", "R", "E">>},
        type |-> <<"S", "t", "o", "r", "e", " ", "R", "o", "o", "m">>],
       [keywords |-> {<<"B", "A", "L", "C", "O", "N", "Y">>},
        type |-> <<"B", "a", "l", "c", "o", "n", "y">>]>>

\* The rules with a keyword in the upper-cased trimmed name.
RulesMatching(name) ==
    {i \in 1..Len(KeywordRules) :
        \E k \in KeywordRules[i].keywords : Contains(k, strip(upper(name)))}

\* C14: a name with a keyword gets the type of the earliest rule with a
\* keyword in the upper-cased trimmed name, whatever its area (services.py).
C14_FirstRuleWins ==
    (/\ call.fn = "ai_classify_room"
     /\ call.module = "services"
     /\ ret # NoRet
     /\ ~call.name.none
     /\ RulesMatching(call.name.text) # {}) =>
        LET first == CHOOSE i \in RulesMatching(call.name.text) :
                         \A j \in RulesMatching(call.name.text) : i <= j
        IN  ret = Returned(KeywordRules[first].type)

\* C14 witness: "Store bed" of 25 sqm, whose text has the keyword of the
\* seventh rule before that of the first and whose area is in the Living
\* Room bucket, was classified Bedroom.
C14_Witness ==
    /\ call.fn = "ai_classify_room"
    /\ call.module = "services"
    /\ call.name.text = <<"S", "t", "o", "r", "e", " ", "b", "e", "d">>
    /\ call.area = 2500
    /\ RulesMatching(call.name.text) = {1, 7}
    /\ ret = Returned(<<"B", "e", "d", "r", "o", "o", "m">>)

\* The area buckets of a module, as it applies them to a non-empty name
\* without a keyword.
AreaFallback(module, area) ==
    IF module = "services"
    THEN (IF area >= 2000 THEN <<"L", "i", "v", "i", "n", "g", " ", "R", "o", "o", "m">>
          ELSE IF area >= 1000 THEN <<"B", "e", "d", "r", "o", "o", "m">>
          ELSE IF area >= 500 THEN <<"K", "i", "t", "c", "h", "e", "n">>
          ELSE <<"O", "t", "h", "e", "r">>)
    ELSE (IF area > 1200 THEN <<"L", "i", "v", "i", "n", "g", " ", "R", "o", "o", "m">>
          ELSE IF area > 900 THEN <<"B", "e", "d", "r", "o", "o", "m">>
          ELSE IF area > 400 THEN <<"K", "i", "t", "c", "h", "e", "n">>
          ELSE <<"O", "t", "h", "e", "r">>)

\* C15: an empty or null name is classified by the area buckets alone, as a
\* non-empty name without a keyword is, and nothing is raised.
C15_EmptyNameByArea ==
    (/\ call.fn = "ai_classify_room"
     /\ ret # NoRet
     /\ (call.name.none \/ call.name.text = <<>>)) =>
        ret = Returned(AreaFallback(call.module, call.area))

\* -------------------------------------------- properties of the pipeline

\* A request is between two of its steps.
Running == pc \notin {"idle", "done", "failed"}

\* What a reader's queries return now.
Stored == Snapshot(Room, RoomEstimate, EstimateLineItem, Estimate)

\* C1: while process_dxf_upload, generate_detailed_estimate or
\* generate_estimate runs, a reader sees the complete rows of before the run
\* or the complete rows of after it (which the run has written when only
\* upload.processed is left to set), never a state in between.
C1_ReadersSeeNoMixedState ==
    Running => (Stored = before \/ pc = "mark_processed")

\* C2: when generate_estimate or generate_detailed_estimate has completed
\* for a project that has rooms, no EstimateLineItem row and no RoomEstimate
\* row of an earlier invocation remains.
C2_NoRowOfEarlierInvocation ==
    (pc = "done" /\ op \in {"detailed", "summary"} /\ Room # {}) =>
        \A row \in EstimateLineItem \cup RoomEstimate : ~row.old

\* C3: when process_dxf_upload has completed, the Room rows are those this
\* run saved, every RoomEstimate and EstimateLineItem row was written by this
\* run for one of these rooms, and the Estimate totals are not those of an
\* earlier run, also when the run saved no room.
C3_DerivedStateReplaced ==
    (pc = "done" /\ op = "upload") =>
        LET ids == {r.id : r \in Room}
        IN  /\ \A r \in Room : ~r.old
            /\ \A row \in EstimateLineItem \cup RoomEstimate :
                  ~row.old /\ row.room \in ids
            /\ Estimate.exists => ~Estimate.old

\* C4: when process_dxf_upload has raised, the Room, RoomEstimate,
\* EstimateLineItem and Estimate rows are those of before the run and
\* upload.processed is not set.
C4_NoPartialStateOnFailure ==
    (pc = "failed" /\ op = "upload") =>
        /\ Stored = before
        /\ ~PlanUpload[loc.up].processed

\* C16: a successful lookup returns the rate and unit of an applicable row
\* (same category and item name, active, effective on or before today) than
\* which no applicable row is newer; a withdrawn row or one not yet in force
\* is never returned.
C16_NewestApplicable ==
    (/\ call.fn = "get_rate_for_item"
     /\ call.db = "ok"
     /\ ret # NoRet
     /\ \E c \in RateCard : /\ c.category = call.category
                            /\ c.item_name = call.item_name
                            /\ c.is_active
                            /\ c.effective_from <= today) =>
        /\ ret.kind = "return"
        /\ \E c \in RateCard :
              /\ ret.value = [rate |-> c.rate, unit |-> c.unit]
              /\ c.category = call.category
              /\ c.item_name = call.item_name
              /\ c.is_active
              /\ c.effective_from <= today
              /\ \A d \in RateCard :
                    (/\ d.category = call.category
                     /\ d.item_name = call.item_name
                     /\ d.is_active
                     /\ d.effective_from <= today) =>
                        d.effective_from <= c.effective_from

\* C16: the brickwork rate is asked for on day 2 with the versions of day 1
\* (500), day 2 (550), day 3 (700) and a withdrawn one of day 2 (650) stored;
\* 550 is returned.
C16_Witness ==
    /\ call.fn = "get_rate_for_item"
    /\ call.db = "ok"
    /\ call.category = "Civil"
    /\ call.item_name = "Brickwork"
    /\ today = 2
    /\ {c.rate : c \in RateCard} = {500, 550, 700, 650}
    /\ ret = Returned([rate |-> 550, unit |-> "sqm"])

\* C17: when no row applies or the query raises, the lookup returns the
\* default table's entry for the category and item name, and rate 0 per sqm
\* when the table has none; nothing is raised.
C17_DefaultRate ==
    (/\ call.fn = "get_rate_for_item"
     /\ ret # NoRet
     /\ \/ call.db = "error"
        \/ ~ \E c \in RateCard : /\ c.category = call.category
                                 /\ c.item_name = call.item_name
                                 /\ c.is_active
                                 /\ c.effective_from <= today) =>
        /\ ret.kind = "return"
        /\ ret.value = DEFAULT_RATES(call.category, call.item_name)
        /\ <<call.category, call.item_name>> = <<"Civil", "Brickwork">> =>
              ret.value = [rate |-> 550, unit |-> "sqm"]
        /\ <<call.category, call.item_name>> \notin DefaultKeys =>
              ret.value = [rate |-> 0, unit |-> "sqm"]

\* C17: the query raises although a brickwork row applies; the default 550
\* per sqm is returned.
C17_Witness ==
    /\ call.fn = "get_rate_for_item"
    /\ call.db = "error"
    /\ call.category = "Civil"
    /\ call.item_name = "Brickwork"
    /\ \E c \in RateCard : c.rate = 500
    /\ ret = Returned([rate |-> 550, unit |-> "sqm"])

\* Amounts a caller may put on a line item before saving it, in hundredths.
SuppliedAmounts == {NoAmount, 0, 1, 123456}

\* C18: every stored EstimateLineItem has amount = quantity * rate, and saving
\* it with any amount the caller supplies stores quantity * rate again.
C18_AmountIsQuantityTimesRate ==
    \A li \in EstimateLineItem :
        /\ li.amount = li.quantity * li.rate
        /\ \A a \in SuppliedAmounts :
              EstimateLineItem_save([li EXCEPT !.amount = a]) = li

\* C18: a line item of more than one unit at a non-zero rate is stored with
\* its amount.
C18_Witness ==
    \E li \in EstimateLineItem :
        /\ li.quantity > 100
        /\ li.rate > 1
        /\ li.amount = li.quantity * li.rate

\* A run of generate_detailed_estimate over a project with rooms has
\* returned and nothing has run since.
DetailedCompleted ==
    \/ op = "detailed" /\ pc = "done" /\ Room # {}
    \/ op = "upload" /\ pc \in {"mark_processed", "done"} /\ loc.saved > 0

\* The line items stored are six per room: brickwork, plastering and wall
\* painting measured by the wall area (to the thousandth when `exact`, else
\* rounded to 2 decimals), floor tiling by the floor area, one light point per
\* 10 sqm and at least one, one switch board; each with a rate and unit
\* get_rate_for_item resolves and amount = quantity * rate.
SixItemsPerRoom(exact) ==
    /\ Cardinality(EstimateLineItem) = 6 * Cardinality(Room)
    /\ \A r \in Room :
          LET items == {li \in EstimateLineItem : li.room = r.id}
              wall_area == calculate_wall_area(r.area, r.name)
          IN  /\ Cardinality(items) = 6
              /\ \A k \in 1..6 : \E li \in items :
                    /\ li.category = WorkItems[k].category
                    /\ li.item_name = r.name \o WorkItems[k].suffix
                    /\ IF k \in {1, 2, 4}
                       THEN IF exact THEN li.quantity * 10 = wall_area
                            ELSE li.quantity = RoundHalfEven(wall_area, 10)
                       ELSE IF k = 3 THEN li.quantity = r.area
                       ELSE IF k = 5
                       THEN li.quantity =
                               100 * (IF r.area \div 1000 > 1
                                      THEN r.area \div 1000 ELSE 1)
                       ELSE li.quantity = 100
                    /\ [rate |-> li.rate, unit |-> li.unit] \in
                          RatesForItem(RateCard, today, WorkItems[k].category,
                                       WorkItems[k].rate_item)
                    /\ li.amount = li.quantity * li.rate

\* C19 as stated: after a completed line-item run every room has exactly its
\* six line items, the wall items with quantity wall_area, and 6 x rooms line
\* items are stored.
C19_SixLineItemsExactWallArea == DetailedCompleted => SixItemsPerRoom(TRUE)

\* C19 amended: the same, the wall items with quantity round(wall_area, 2).
C19_SixLineItemsPerRoom == DetailedCompleted => SixItemsPerRoom(FALSE)

\* C19: a run has completed over a room whose wall area is no whole number of
\* hundredths of a sqm (a 5.01 sqm bathroom: 12.525 sqm of wall), with its six
\* line items stored.
C19_Witness ==
    /\ DetailedCompleted
    /\ \E r \in Room :
          /\ calculate_wall_area(r.area, r.name) % 10 # 0
          /\ Cardinality({li \in EstimateLineItem : li.room = r.id}) = 6

\* C20: in every summary returned by estimate_by_category and by
\* get_detailed_estimate_for_api, each category subtotal is the sum of the
\* amounts of the stored line items of that category, the tax is
\* round(subtotal * 0.18, 2) and grand_total is subtotal + tax.  (On the
\* totals reached here Python's float rounding and RoundHalfEven agree: for
\* total_cost 19131.25, round(total_cost * 1.18, 2) is 22574.88 and
\* round(total_cost * 0.18, 2) is 3443.62 in both.)
C20_GrandTotalIsSubtotalPlusTax ==
    (/\ call.fn \in {"estimate_by_category", "estimate_detailed"}
     /\ ret # NoRet
     /\ ret.value.status = 200) =>
        LET by_category == call.fn = "estimate_by_category"
            categories == IF by_category THEN ret.value.categories
                          ELSE ret.value.summary.category_wise
            subtotal == IF by_category THEN ret.value.subtotal
                        ELSE ret.value.summary.total_cost
            tax == IF by_category THEN ret.value.gst
                   ELSE ret.value.summary.gst
            grand_total == IF by_category THEN ret.value.grand_total
                           ELSE ret.value.summary.grand_total
        IN  /\ DOMAIN categories = {li.category : li \in EstimateLineItem}
            /\ \A c \in DOMAIN categories :
                  categories[c] =
                      SumAmounts({li \in EstimateLineItem : li.category = c})
            /\ tax = RoundHalfEven(subtotal * 18, 100)
            /\ grand_total = subtotal + tax

\* The fields of the rows `rows` that a caller sees: not the primary key, not
\* the marker of rows older than the request.
Content(rows) == {[f \in DOMAIN r \ {"id", "old"} |-> r[f]] : r \in rows}

\* The request just served and the one before it both ran the same estimation
\* mode to its end over the project's rooms.
RanTwice ==
    /\ pc = "done"
    /\ last.pc = "done"
    /\ Room # {}
    /\ \/ op = "detailed" /\ last.op \in {"detailed", "upload"}
       \/ op = "summary" /\ last.op = "summary"

\* C21: when an estimation mode has run twice in a row over the same rooms,
\* rate cards and day, the line items, the per-room estimates and the project
\* totals after the second run are those after the first, row for row.
C21_RegenerationIdempotent ==
    RanTwice =>
        /\ Content(Room) = Content(before.Room)
        /\ Content(EstimateLineItem) = Content(before.EstimateLineItem)
        /\ Cardinality(EstimateLineItem) = Cardinality(before.EstimateLineItem)
        /\ Content(RoomEstimate) = Content(before.RoomEstimate)
        /\ Cardinality(RoomEstimate) = Cardinality(before.RoomEstimate)
        /\ MarkOldEstimate(Estimate) = before.Estimate

\* C21: the line-item mode has run twice in a row and line items are stored.
C21_Witness ==
    /\ RanTwice
    /\ op = "detailed"
    /\ last.op = "detailed"
    /\ EstimateLineItem # {}

\* sum of the field f of the rows `rows`.
RECURSIVE SumField(_, _)
SumField(rows, f) ==
    IF rows = {} THEN 0
    ELSE LET r == CHOOSE x \in rows : TRUE
         IN  r[f] + SumField(rows \ {r}, f)

\* A run of generate_estimate over a project with rooms has returned and
\* nothing has run since.
SummaryCompleted == op = "summary" /\ pc = "done" /\ Room # {}

\* C22: after a summary run every room has one RoomEstimate with tiles =
\* floor_area, paint = 3 x floor_area, cement_bags = floor(0.2 x paint),
\* sand_tons = round(0.035 x cement_bags, 2) and cost = 1200 tiles + 15 paint
\* + 420 cement_bags + 1400 sand_tons, and each total of the Estimate is the
\* sum of the per-room values; a room of 12.00 sqm has 7 bags, 0.25 tons and
\* costs 18230.00.
C22_SummaryFormulas ==
    SummaryCompleted =>
        /\ Cardinality(RoomEstimate) = Cardinality(Room)
        /\ \A r \in Room : \E e \in RoomEstimate :
              /\ e.room = r.id
              /\ e.tiles_sqm = r.area
              /\ e.paint_sqm = 30 * r.area
              /\ 5000 * e.cement_bags <= e.paint_sqm
              /\ e.paint_sqm < 5000 * (e.cement_bags + 1)
              /\ 10 * e.sand_tons - 5 <= 35 * e.cement_bags
              /\ 35 * e.cement_bags <= 10 * e.sand_tons + 5
              /\ e.cost = 1200 * e.tiles_sqm + (15 * e.paint_sqm) \div 10
                          + 42000 * e.cement_bags + 1400 * e.sand_tons
              /\ r.area = 1200 =>
                    /\ e.cement_bags = 7
                    /\ e.sand_tons = 25
                    /\ e.cost = 1823000
        /\ Estimate.exists
        /\ Estimate.total_tiles_sqm = SumField(RoomEstimate, "tiles_sqm")
        /\ 10 * Estimate.total_paint_sqm = SumField(RoomEstimate, "paint_sqm")
        /\ Estimate.cement_bags = SumField(RoomEstimate, "cement_bags")
        /\ Estimate.sand_tons = SumField(RoomEstimate, "sand_tons")
        /\ Estimate.total_cost = SumField(RoomEstimate, "cost")

\* C22: a summary run has completed over the two rooms of 12.00 sqm: 14 bags
\* of cement in total.
C22_Witness ==
    /\ SummaryCompleted
    /\ Cardinality(Room) = 2
    /\ Estimate.cement_bags = 14
    /\ \E e \in RoomEstimate : e.cement_bags = 7 /\ e.sand_tons = 25

\* C23: whatever the processing of single entities raises, extract_room_labels
\* and extract_room_boundaries return, and return the labels and boundaries
\* of all the entities that raise nothing.
C23_EntityErrorsContained ==
    (call.fn \in {"extract_room_labels", "extract_room_boundaries"}
     /\ ret # NoRet) =>
        /\ ret.kind = "return"
        /\ ret.value =
              (IF call.fn = "extract_room_labels"
               THEN extract_room_labels(Sound(call.doc, call.faults))
               ELSE extract_room_boundaries_enhanced(
                        Sound(call.doc, call.faults), call.thr))

\* Both workers have finished their run of generate_detailed_estimate.
BothDone == other # NoRun /\ pc = "done" /\ other.pc = "done"

\* C24: nothing serializes two runs for one project: while one worker is
\* anywhere in its run the other may take its next step.  When both have
\* finished, every room has between six and twelve line items, and exactly
\* its six when neither run was left in its middle (the runs ran one after
\* the other).
C24_RunsNotSerialized ==
    /\ (other # NoRun /\ other.pc \notin {"done", "failed"}) => ENABLED Switch
    /\ BothDone =>
          /\ \A r \in Room :
                LET n == Cardinality({li \in EstimateLineItem : li.room = r.id})
                IN  6 <= n /\ n <= 12
          /\ ~other.overlapped => SixItemsPerRoom(FALSE)

\* C24: two interleaved runs have finished and the line items of both are
\* stored: twelve per room, and the amounts add up to twice the total_cost
\* either run stored.
C24_Witness ==
    /\ BothDone
    /\ other.overlapped
    /\ \A r \in Room :
          Cardinality({li \in EstimateLineItem : li.room = r.id}) = 12
    /\ SumAmounts(EstimateLineItem) = 2 * Estimate.total_cost

\* C25: after requests that each ran to their end, the total_cost of the
\* project's Estimate is the sum of the amounts of the stored line items.
C25_TotalCostIsSumOfLineItems ==
    (/\ pc = "done"
     /\ last.pc \in {"idle", "done"}
     /\ Estimate.exists) =>
        Estimate.total_cost = SumAmounts(EstimateLineItem)

\* C26: in the enhanced match_rooms every label in used_labels is the name
\* of exactly one room of the output: a boundary that emits no room consumes
\* no label.
C26_UsedLabelNamesARoom ==
    m.impl = "enhanced" =>
        \A j \in m.used_labels :
            Cardinality({k \in 1..Len(m.rooms) : m.rooms[k].l = j}) = 1

\* The candidates among the first n of rooms_data that process_dxf_upload
\* keeps: those of at least 5 sqm.
KeptCandidates(n) ==
    {k \in 1..n : k <= Len(loc.rooms_data) /\ loc.rooms_data[k].area >= 500}

\* C27: every Room row stored by process_dxf_upload has an area of at least
\* 5 sqm, every RoomEstimate row and every line item attached to a room
\* belongs to such a row, and the rooms the run has saved, during its loop
\* and when the run has completed, are as many as the candidates of at
\* least 5 sqm it has passed; a candidate below 5 sqm leaves no row.
C27_OnlyRoomsOfFiveSqm ==
    /\ \A r \in Room : r.area >= 500
    /\ \A e \in RoomEstimate : \E r \in Room : r.id = e.room /\ r.area >= 500
    /\ \A li \in EstimateLineItem :
          li.room # NULL => \E r \in Room : r.id = li.room /\ r.area >= 500
    /\ (op = "upload" /\ pc = "save_rooms") =>
          /\ loc.saved = Cardinality(KeptCandidates(loc.i - 1))
          /\ Cardinality(Room) = loc.saved
    /\ (op = "upload" /\ pc = "done") =>
          /\ loc.saved = Cardinality(KeptCandidates(Len(loc.rooms_data)))
          /\ Cardinality(Room) = loc.saved

\* C27 witness: an upload whose only candidate is labelled and measures
\* 0.6 sqm, above the matcher's floor and below 5 sqm, has completed: no
\* room was saved and no estimate row was written for it.
C27_Witness ==
    /\ op = "upload"
    /\ pc = "done"
    /\ Len(loc.rooms_data) = 1
    /\ loc.rooms_data[1].area = 60
    /\ loc.rooms_data[1].name = <<"B", "E", "D">>
    /\ PlanUpload[loc.up].processed
    /\ Room = {}
    /\ RoomEstimate = {}

\* C28: when generate_detailed_estimate has returned, the quantities of the
\* project's Estimate are the sums of the per-room rows: cement_bags of the
\* RoomEstimate cement_bags, total_paint_sqm of the paint_sqm (kept to the
\* thousandth of a sqm) and total_tiles_sqm of the tiles_sqm.
C28_EstimateQuantitiesAreRoomSums ==
    DetailedCompleted =>
        /\ Estimate.cement_bags = SumField(RoomEstimate, "cement_bags")
        /\ 10 * Estimate.total_paint_sqm = SumField(RoomEstimate, "paint_sqm")
        /\ Estimate.total_tiles_sqm = SumField(RoomEstimate, "tiles_sqm")

\* C29: for given RateCard rows and a given day a successful lookup has one
\* possible result: what get_rate_for_item returned is the rate and unit of
\* every row the query may put first, also when active rows of one item share
\* an effective_from and differ in location.
C29_RateResolutionDeterministic ==
    (/\ call.fn = "get_rate_for_item"
     /\ call.db = "ok"
     /\ ret # NoRet) =>
        \A r \in RatesForItem(RateCard, today, call.category, call.item_name) :
            ret = Returned(r)

\* C30: an upload's processed flag becomes true only in the last step of its
\* own process_dxf_upload run, the upload being a dxf or dwg file, when the
\* run has replaced the project's rooms by the ones it saved and, having
\* saved a room, has generated the estimate; a flag that is true stays true;
\* and project_upload_status answers 'completed' exactly when the project's
\* latest upload is processed.
C30_ProcessedOnlyAfterRun ==
    [][/\ \A i \in DOMAIN PlanUpload' :
              (/\ PlanUpload'[i].processed
               /\ ~(i \in DOMAIN PlanUpload /\ PlanUpload[i].processed)) =>
                  /\ i \in DOMAIN PlanUpload
                  /\ PlanUpload[i].file_type \in {"dxf", "dwg"}
                  /\ op = "upload"
                  /\ pc = "mark_processed"
                  /\ loc.up = i
                  /\ Cardinality(Room) = loc.saved
                  /\ \A r \in Room : ~r.old
                  /\ loc.saved > 0 =>
                        Estimate.exists /\ SixItemsPerRoom(FALSE)
       /\ \A i \in DOMAIN PlanUpload :
              PlanUpload[i].processed => PlanUpload'[i].processed
       /\ project_upload_status(PlanUpload') = "completed" <=>
              /\ PlanUpload' # <<>>
              /\ PlanUpload'[Len(PlanUpload')].processed]_vars

====
